---------------------------- MODULE Spec2Model ----------------------------
(***************************************************************************)
(* Conversation state engine of the chat frontend: the redux chat slice    *)
(* (sessions, messages, tags), sendMessage and its network completion, the *)
(* useTyping reveal scheduler with its settle timer, the image animation   *)
(* callback, the ChatWindow session-change effect, the Sidebar             *)
(* acknowledgement effect and the useAutoScroll controller.                *)
(*                                                                         *)
(* Strings that are revealed character by character are sequences of       *)
(* one-character strings.  An optional JSON field is <<>> when missing and *)
(* <<v>> when present.  Timestamps (createdAt, updatedAt) are not modelled.*)
(***************************************************************************)
EXTENDS Naturals, Integers, Sequences, FiniteSets, TLC

VARIABLES
  chat,         \* redux state: [sessions, activeSessionId]
  nextSid,      \* next fresh session id  (nanoid)
  nextMid,      \* next fresh message id  (nanoid)
  appMounted,   \* ChatApp has mounted (its bootstrap effect has run)
  requests,     \* fetches in flight: [rid, sessionId, payload]
  typing,       \* useTyping instances of the mounted ChatWindow, by message id
  timers,       \* pending settle timers (setTimeout 300) of useTyping
  seen,         \* Sidebar seenRef
  ackPending,   \* Sidebar requestAnimationFrame callbacks not yet run, each with its newIds
  settleCalls,  \* history: number of markMessageTyped dispatches per message id
  lastCall,     \* history: the handler that ran last, with its outcome
  auto          \* one useAutoScroll instance and its environment

vars == <<chat, nextSid, nextMid, appMounted, requests, typing, timers,
          seen, ackPending, settleCalls, lastCall, auto>>

chatVars == <<chat, nextSid, nextMid, appMounted, requests, typing, timers,
              seen, ackPending, settleCalls>>

-----------------------------------------------------------------------------
(* Bounds of the model *)

MaxSessions == 2
MaxMsgs == 4

(* Program constants *)

Null == 0
DEFAULT_GREETING == "Hello! I'm ready to help. Ask me anything to start this chat."
\* the fallback text of the catch branch, abbreviated to two characters
APOLOGY == <<"S", "y">>

SessionIds == 1..MaxSessions
MessageIds == 1..MaxMsgs

-----------------------------------------------------------------------------
(* Generic helpers *)

RECURSIVE FindIdx(_, _, _)
\* Array.prototype.find by id: index of the first element with that id, 0 if none
FindIdx(seq, id, i) ==
  IF i > Len(seq) THEN 0
  ELSE IF seq[i].id = id THEN i
  ELSE FindIdx(seq, id, i + 1)

RECURSIVE Filter(_, _)
\* Array.prototype.filter with the predicate "id differs from"
Filter(seq, id) ==
  IF seq = <<>> THEN <<>>
  ELSE IF Head(seq).id # id THEN <<Head(seq)>> \o Filter(Tail(seq), id)
  ELSE Filter(Tail(seq), id)

RECURSIVE IndexOf(_, _, _)
\* Array.prototype.indexOf, 1-based; 0 when absent
IndexOf(seq, x, i) ==
  IF i > Len(seq) THEN 0
  ELSE IF seq[i] = x THEN i
  ELSE IndexOf(seq, x, i + 1)

\* Array.prototype.splice(idx, 1)
Splice(seq, idx) == SubSeq(seq, 1, idx - 1) \o SubSeq(seq, idx + 1, Len(seq))

\* x ?? d on an optional field
Nullish(o, d) == IF o = <<>> THEN d ELSE o[1]

Range(seq) == {seq[i] : i \in 1..Len(seq)}

-----------------------------------------------------------------------------
(* The chat slice: state and reducers *)

initialState == [sessions |-> <<>>, activeSessionId |-> Null]

createNewSession(id, title) ==
  [id |-> id, title |-> title, prev_context |-> DEFAULT_GREETING,
   was_context_valid_old |-> TRUE, is_follow_up_old |-> TRUE,
   related_images |-> <<>>, messages |-> <<>>, loading |-> FALSE, new |-> TRUE]

\* mutant of bootstrapFirstSession: the emptiness test is missing
bootstrapFirstSessionAlways(st, id) ==
  [sessions |-> Append(st.sessions, createNewSession(id, "First Chat")),
   activeSessionId |-> id]

bootstrapFirstSession(st, id) ==
  IF st.activeSessionId = Null /\ Len(st.sessions) = 0
  THEN [sessions |-> Append(st.sessions, createNewSession(id, "First Chat")),
        activeSessionId |-> id]
  ELSE st

\* mutant of addSession: the new session goes to the end of the list
addSessionPushes(st, id, title) ==
  [sessions |-> Append(st.sessions, createNewSession(id, title)),
   activeSessionId |-> id]

addSession(st, id, title) ==
  [sessions |-> <<createNewSession(id, title)>> \o st.sessions,
   activeSessionId |-> id]

\* mutant of switchSession: the id is not looked up in the list
switchSessionUnchecked(st, id) == [st EXCEPT !.activeSessionId = id]

switchSession(st, id) ==
  IF FindIdx(st.sessions, id, 1) # 0
  THEN [st EXCEPT !.activeSessionId = id]
  ELSE st

\* mutant of removeSession: the session behind the removed one becomes active
removeSessionPromotesFollowing(st, id) ==
  LET rest == Filter(st.sessions, id)
      k == FindIdx(st.sessions, id, 1)
  IN [sessions |-> rest,
      activeSessionId |->
        IF st.activeSessionId = id
        THEN (IF k <= Len(rest) THEN rest[k].id ELSE Null)
        ELSE st.activeSessionId]

removeSession(st, id) ==
  LET rest == Filter(st.sessions, id) IN
  [sessions |-> rest,
   activeSessionId |->
     IF st.activeSessionId = id
     THEN (IF Len(rest) > 0 THEN rest[1].id ELSE Null)
     ELSE st.activeSessionId]

addUserMessage(st, sessionId, content, images, id) ==
  LET i == FindIdx(st.sessions, sessionId, 1) IN
  IF i = 0 THEN st
  ELSE [st EXCEPT !.sessions[i].messages =
          Append(@, [id |-> id, role |-> "user", content |-> content,
                     images |-> images, animated |-> FALSE, typed |-> FALSE])]

\* mutant of addModelMessage: the message goes to the session that is active
\* when the reducer runs
addModelMessageToActive(st, sessionId, content, images, typed, id) ==
  LET i == FindIdx(st.sessions, st.activeSessionId, 1) IN
  IF i = 0 THEN st
  ELSE [st EXCEPT !.sessions[i].messages =
          Append(@, [id |-> id, role |-> "model", content |-> content,
                     images |-> images, animated |-> FALSE, typed |-> typed])]

\* mutant of addModelMessage: the message is put in front of the others
addModelMessageUnshifts(st, sessionId, content, images, typed, id) ==
  LET i == FindIdx(st.sessions, sessionId, 1) IN
  IF i = 0 THEN st
  ELSE [st EXCEPT !.sessions[i].messages =
          <<[id |-> id, role |-> "model", content |-> content,
             images |-> images, animated |-> FALSE, typed |-> typed]>> \o @]

addModelMessage(st, sessionId, content, images, typed, id) ==
  LET i == FindIdx(st.sessions, sessionId, 1) IN
  IF i = 0 THEN st
  ELSE [st EXCEPT !.sessions[i].messages =
          Append(@, [id |-> id, role |-> "model", content |-> content,
                     images |-> images, animated |-> FALSE, typed |-> typed])]

\* the fields of the payload are optional: <<>> leaves the field alone
setSessionMeta(st, sessionId, prev_context, wcv, ifu, related_images, title) ==
  LET i == FindIdx(st.sessions, sessionId, 1) IN
  IF i = 0 THEN st
  ELSE [st EXCEPT
          !.sessions[i].prev_context = Nullish(prev_context, @),
          !.sessions[i].was_context_valid_old = Nullish(wcv, @),
          !.sessions[i].is_follow_up_old = Nullish(ifu, @),
          !.sessions[i].related_images = Nullish(related_images, @),
          !.sessions[i].title = Nullish(title, @)]

setSessionStatus(st, id) ==
  LET i == FindIdx(st.sessions, id, 1) IN
  IF i = 0 THEN st ELSE [st EXCEPT !.sessions[i].new = FALSE]

\* mutant of toggleTaggedImage: a tagged path is pushed again instead of removed
toggleTaggedImagePushes(st, sessionId, path) ==
  LET i == FindIdx(st.sessions, sessionId, 1) IN
  IF i = 0 THEN st
  ELSE [st EXCEPT !.sessions[i].related_images = Append(@, path)]

toggleTaggedImage(st, sessionId, path) ==
  LET i == FindIdx(st.sessions, sessionId, 1) IN
  IF i = 0 THEN st
  ELSE LET idx == IndexOf(st.sessions[i].related_images, path, 1) IN
       IF idx >= 1
       THEN [st EXCEPT !.sessions[i].related_images = Splice(@, idx)]
       ELSE [st EXCEPT !.sessions[i].related_images = Append(@, path)]

\* mutant of clearTaggedImages: the tags of every session are cleared
clearTaggedImagesEverywhere(st, sessionId) ==
  LET i == FindIdx(st.sessions, sessionId, 1) IN
  IF i = 0 THEN st
  ELSE [st EXCEPT !.sessions =
          [k \in 1..Len(st.sessions) |-> [st.sessions[k] EXCEPT !.related_images = <<>>]]]

clearTaggedImages(st, sessionId) ==
  LET i == FindIdx(st.sessions, sessionId, 1) IN
  IF i = 0 THEN st ELSE [st EXCEPT !.sessions[i].related_images = <<>>]

\* mutant of setSessionLoading: the flag is not written
setSessionLoadingIgnored(st, sessionId, loading) == st

setSessionLoading(st, sessionId, loading) ==
  LET i == FindIdx(st.sessions, sessionId, 1) IN
  IF i = 0 THEN st ELSE [st EXCEPT !.sessions[i].loading = loading]

\* mutant of markMessageTyped: the flag is flipped instead of set
markMessageTypedFlips(st, sessionId, messageId) ==
  LET i == FindIdx(st.sessions, sessionId, 1) IN
  IF i = 0 THEN st
  ELSE LET k == FindIdx(st.sessions[i].messages, messageId, 1) IN
       IF k = 0
       THEN [st EXCEPT !.sessions[i].loading = FALSE]
       ELSE [st EXCEPT !.sessions[i].messages[k].typed = ~@,
                       !.sessions[i].loading = FALSE]

\* mutant of markMessageTyped: the loading flag is left alone
markMessageTypedKeepsLoading(st, sessionId, messageId) ==
  LET i == FindIdx(st.sessions, sessionId, 1) IN
  IF i = 0 THEN st
  ELSE LET k == FindIdx(st.sessions[i].messages, messageId, 1) IN
       IF k = 0 THEN st
       ELSE [st EXCEPT !.sessions[i].messages[k].typed = TRUE]

markMessageTyped(st, sessionId, messageId) ==
  LET i == FindIdx(st.sessions, sessionId, 1) IN
  IF i = 0 THEN st
  ELSE LET k == FindIdx(st.sessions[i].messages, messageId, 1) IN
       IF k = 0
       THEN [st EXCEPT !.sessions[i].loading = FALSE]
       ELSE [st EXCEPT !.sessions[i].messages[k].typed = TRUE,
                       !.sessions[i].loading = FALSE]

markMessageAnimated(st, sessionId, messageId) ==
  LET i == FindIdx(st.sessions, sessionId, 1) IN
  IF i = 0 THEN st
  ELSE LET k == FindIdx(st.sessions[i].messages, messageId, 1) IN
       IF k = 0 THEN st
       ELSE [st EXCEPT !.sessions[i].messages[k].animated = TRUE]

-----------------------------------------------------------------------------
(* The useTyping hook: per message bubble state, refs and effect *)

\* mutant of isNew: the typed flag is not looked at
isNewIgnoresTyped(m) == m.role # "user"

isNew(m) == m.role # "user" /\ ~m.typed

\* useState / useRef initial values of a bubble mounted for message m
useTypingInit(m) ==
  [typedText |-> IF m.role = "user" \/ ~isNew(m) THEN m.content ELSE <<>>,
   isTypingComplete |-> ~isNew(m),
   showImages |-> m.typed,
   charIndex |-> 0,
   raf |-> FALSE,            \* a requestAnimationFrame(step) is pending
   elapsed |-> 0,            \* time since prevTime, in ms
   dispatchedMark |-> FALSE,
   animPending |-> FALSE,    \* the image grid's show animation is running
   entering |-> FALSE]       \* ChatWindow's entrance animation of the bubble is running

\* the effect body (run at mount and when m.typed changes); its cleanup, which
\* cancels the pending frame, has run before
useTypingEffect(inst, m) ==
  IF ~isNew(m)
  THEN [inst EXCEPT !.typedText = m.content,
                    !.isTypingComplete = TRUE,
                    !.showImages = IF m.typed THEN TRUE ELSE @,
                    !.raf = FALSE]
  ELSE [inst EXCEPT !.typedText = <<>>,
                    !.isTypingComplete = FALSE,
                    !.showImages = FALSE,
                    !.dispatchedMark = FALSE,
                    !.charIndex = 0,
                    !.elapsed = 0,
                    !.raf = TRUE]

\* MessageBubble / ImageMessage: the animated image grid of a model message is shown
animShown(inst, m) ==
  /\ m.role # "user"
  /\ inst.isTypingComplete
  /\ Len(m.images) # 0
  /\ inst.showImages

\* the images of a bubble are on screen (their tag buttons can be clicked)
imagesShown(inst, m) ==
  /\ Len(m.images) # 0
  /\ \/ m.role = "user" /\ ~inst.showImages
     \/ animShown(inst, m)

\* per-character delay of step(), times 8, with the jitter j in eighths of the
\* +-12.5% range: dynamicDelay += (Math.random() - 0.5) * dynamicDelay * 0.25
Jitters == {-1, 0, 1}

dynamicDelay8(currentChar, j) ==
  LET d == IF currentChar \in {".", "!", "?"} THEN 100
           ELSE IF currentChar \in {",", ";"} THEN 40
           ELSE IF currentChar = " " THEN 8
           ELSE IF currentChar = "\n" THEN 60
           ELSE 12
  IN 8 * d + j * d

\* m.content[charIndex.current - 1]: undefined before the first character
charAt(content, idx) == IF idx >= 1 /\ idx <= Len(content) THEN content[idx] ELSE "undefined"

\* mutant of Slice: the character at the cursor is left out
SliceBeforeCursor(content, n) ==
  SubSeq(content, 1, IF n > Len(content) THEN Len(content) ELSE n - 1)

\* String.prototype.slice(0, n)
Slice(content, n) == SubSeq(content, 1, IF n > Len(content) THEN Len(content) ELSE n)

-----------------------------------------------------------------------------
(* Rendering: what React does after a handler has dispatched *)

EmptyFn == [x \in {} |-> 0]

ActiveIdx(st) == FindIdx(st.sessions, st.activeSessionId, 1)

ActiveMessages(st) ==
  IF ActiveIdx(st) = 0 THEN <<>> ELSE st.sessions[ActiveIdx(st)].messages

MessageById(msgs, id) == msgs[FindIdx(msgs, id, 1)]

sessionChangeEffectSkipped(st, sessionId, msgs, k) == st

RECURSIVE sessionChangeEffect(_, _, _, _)
\* ChatWindow effect on [session.id]: mark every untyped model message of the
\* session (as rendered) as typed
sessionChangeEffect(st, sessionId, msgs, k) ==
  IF k > Len(msgs) THEN st
  ELSE IF msgs[k].role = "model" /\ ~msgs[k].typed
       THEN sessionChangeEffect(markMessageTyped(st, sessionId, msgs[k].id), sessionId, msgs, k + 1)
       ELSE sessionChangeEffect(st, sessionId, msgs, k + 1)

\* the message ids the session-change effect dispatches markMessageTyped for
sessionChangeTargets(msgs) ==
  {msgs[k].id : k \in {i \in 1..Len(msgs) : msgs[i].role = "model" /\ ~msgs[i].typed}}

\* mutant of rerenderBubble: the effect runs again after every render
rerenderBubbleRestarts(inst, mOld, m) ==
  LET e == useTypingEffect(inst, m) IN
  [e EXCEPT !.animPending =
     IF animShown(e, m) /\ ~animShown(inst, mOld) THEN TRUE
     ELSE inst.animPending /\ animShown(e, m)]

\* a bubble instance after a re-render with message m (mOld: as last rendered);
\* of the effect's dependencies only m.typed can change while it is mounted
rerenderBubble(inst, mOld, m) ==
  LET e == IF m.typed # mOld.typed THEN useTypingEffect(inst, m) ELSE inst IN
  [e EXCEPT !.animPending =
     IF animShown(e, m) /\ ~animShown(inst, mOld) THEN TRUE
     ELSE inst.animPending /\ animShown(e, m)]

\* a bubble instance freshly mounted for message m
mountBubble(m) ==
  LET e == useTypingEffect(useTypingInit(m), m) IN
  [e EXCEPT !.animPending = animShown(e, m)]

\* Commit(st1, typ1, tim1, calls1, ack1): the handler left the store at st1, the
\* bubble instances at typ1, the timers at tim1, the dispatch counts at calls1
\* and the Sidebar's pending frames at ack1; React re-renders and runs the effects.
\* mutant of newSessionIds: seenRef is not looked at
newSessionIdsUnseen(st, seen0) ==
  {st.sessions[i].id : i \in {k \in 1..Len(st.sessions) : st.sessions[k].new}}

\* Sidebar effect: sessions.filter(s => s.new && !seenRef.current.has(s.id))
newSessionIds(st, seen0) ==
  {st.sessions[i].id : i \in {k \in 1..Len(st.sessions) :
       st.sessions[k].new /\ st.sessions[k].id \notin seen0}}

\* remount: the ChatWindow is mounted anew; seen0: the Sidebar's seenRef
CommitWith(remount, seen0, st1, typ1, tim1, calls1, ack1) ==
  LET msgs1 == ActiveMessages(st1)
      st2 == IF remount
             THEN sessionChangeEffect(st1, st1.activeSessionId, msgs1, 1)
             ELSE st1
      msgs2 == ActiveMessages(st2)
      ids == {msgs2[k].id : k \in 1..Len(msgs2)}
      old == ActiveMessages(chat)
      newIds == newSessionIds(st2, seen0)
  IN
  /\ chat' = st2
  /\ typing' =
       IF remount
       THEN [id \in ids |->
               rerenderBubble(mountBubble(MessageById(msgs1, id)),
                              MessageById(msgs1, id), MessageById(msgs2, id))]
       ELSE [id \in ids |->
               IF id \in DOMAIN typ1
               THEN rerenderBubble(typ1[id], MessageById(old, id), MessageById(msgs2, id))
               ELSE [mountBubble(MessageById(msgs2, id)) EXCEPT
                       !.entering = (MessageById(msgs2, id).role = "user"
                                     /\ ~MessageById(msgs2, id).animated)]]
  /\ timers' =
       IF remount
       THEN {[t EXCEPT !.stale = TRUE,
                       !.mark = IF t.stale THEN t.mark ELSE typ1[t.messageId].dispatchedMark]
             : t \in tim1}
       ELSE tim1
  /\ settleCalls' =
       IF remount
       THEN [id \in MessageIds |->
               IF id \in sessionChangeTargets(msgs1) THEN calls1[id] + 1 ELSE calls1[id]]
       ELSE calls1
  /\ seen' = seen0 \cup newIds
  \* if (!newIds.length) return; otherwise one frame is requested for them
  /\ ackPending' = IF newIds = {} THEN ack1 ELSE Append(ack1, newIds)

\* the ChatWindow is keyed by the active session: it remounts when that changes
Commit(st1, typ1, tim1, calls1, ack1) ==
  CommitWith(st1.activeSessionId # chat.activeSessionId, seen, st1, typ1, tim1, calls1, ack1)

Call(op, sid, mid, flag) == [op |-> op, sid |-> sid, mid |-> mid, flag |-> flag]

SessionOf(st, sid) == st.sessions[FindIdx(st.sessions, sid, 1)]

HasSession(st, sid) == FindIdx(st.sessions, sid, 1) # 0

-----------------------------------------------------------------------------
(* Inputs *)

Queries == {<<"h", "e", "l", "l", "o">>}

Img1 == [path |-> <<"p1">>, data |-> <<"d1">>]

\* response bodies (res.json()); every field is optional
Responses ==
  { [answer |-> <<<<"h", "i">>>>, images |-> <<>>, context |-> <<"ctx">>,
     was_context_valid |-> <<FALSE>>, is_follow_up |-> <<>>],
    [answer |-> <<>>, images |-> <<<<Img1>>>>, context |-> <<>>,
     was_context_valid |-> <<>>, is_follow_up |-> <<TRUE>>],
    [answer |-> <<<<>>>>, images |-> <<<<>>>>, context |-> <<"ctx">>,
     was_context_valid |-> <<TRUE>>, is_follow_up |-> <<TRUE>>] }

\* time between two animation frames, in ms (the first frame may come early)
FrameDts == {8, 16}

\* elapsed times above every delay behave alike
ElapsedCap == 113

-----------------------------------------------------------------------------
(* ChatApp: startup, session buttons, sendMessage *)

\* height of the scroll container's box, in px
ClientHeight == 100

\* ChatWindow / useAutoScroll before the bubble is mounted: useState(true) for
\* isAtBottom, an empty scroll container, no timer
useAutoScrollInit ==
  [mounted |-> FALSE,
   observed |-> FALSE,       \* the ResizeObserver has delivered its first notification
   isAtBottom |-> TRUE,      \* ChatWindow state, passed as the enabled option
   enabledRef |-> TRUE,
   timeout |-> <<>>,         \* ms left of every setTimeout set and not cleared, oldest first
   sinceNotify |-> 0,        \* ms since the last notification taken while enabled (up to delay)
   resets |-> 0,             \* pending timers cleared by a later notification
   scrollHeight |-> ClientHeight,
   scrollTop |-> 0,
   scrollEvent |-> FALSE,    \* a scroll event of the container is queued
   commands |-> 0,           \* scrollTo calls issued on the container
   last |-> "init"]

Init ==
  /\ chat = initialState
  /\ nextSid = 1
  /\ nextMid = 1
  /\ appMounted = FALSE
  /\ requests = {}
  /\ typing = EmptyFn
  /\ timers = {}
  /\ seen = {}
  /\ ackPending = <<>>
  /\ settleCalls = [id \in MessageIds |-> 0]
  /\ lastCall = Call("init", Null, 0, FALSE)
  /\ auto = useAutoScrollInit

\* ChatApp mount effect: dispatch(bootstrapFirstSession())
Bootstrap ==
  /\ ~appMounted
  /\ appMounted' = TRUE
  /\ LET st1 == bootstrapFirstSession(chat, nextSid) IN
     /\ nextSid' = IF st1 # chat THEN nextSid + 1 ELSE nextSid
     /\ Commit(st1, typing, timers, settleCalls, ackPending)
  /\ lastCall' = Call("bootstrap", Null, 0, FALSE)
  /\ UNCHANGED <<nextMid, requests, auto>>

\* createNew: dispatch(addSession({title: "New Chat"}))
CreateNew ==
  /\ appMounted
  /\ nextSid <= MaxSessions
  /\ nextSid' = nextSid + 1
  /\ Commit(addSession(chat, nextSid, "New Chat"), typing, timers, settleCalls, ackPending)
  /\ lastCall' = Call("createNew", nextSid, 0, FALSE)
  /\ UNCHANGED <<nextMid, appMounted, requests, auto>>

\* Sidebar onSwitch: a session button of the list is clicked
SwitchSession(id) ==
  /\ appMounted
  /\ FindIdx(chat.sessions, id, 1) # 0
  /\ Commit(switchSession(chat, id), typing, timers, settleCalls, ackPending)
  /\ lastCall' = Call("switchSession", id, 0, FALSE)
  /\ UNCHANGED <<nextSid, nextMid, appMounted, requests, auto>>

\* Sidebar handleDelete: its 500 ms timer runs onDelete(id); the session may be
\* gone by then (a second click on the same button)
RemoveSession(id) ==
  /\ appMounted
  /\ id < nextSid
  /\ Commit(removeSession(chat, id), typing, timers, settleCalls, ackPending)
  /\ lastCall' = Call("removeSession", id, 0, FindIdx(chat.sessions, id, 1) # 0)
  /\ UNCHANGED <<nextSid, nextMid, appMounted, requests, auto>>

RECURSIVE findImage(_, _, _)
\* the first image with that path in the messages, in order; <<>> if none
findImage(msgs, path, k) ==
  IF k > Len(msgs) THEN <<>>
  ELSE LET hits == SelectSeq(msgs[k].images, LAMBDA img : img.path = path) IN
       IF Len(hits) > 0 THEN <<hits[1]>> ELSE findImage(msgs, path, k + 1)

\* userImages of sendMessage: resolve every tagged path, drop the unresolved
userImages(session) ==
  LET resolved == [i \in 1..Len(session.related_images) |->
                     LET f == findImage(session.messages, session.related_images[i], 1) IN
                     IF f # <<>> THEN f[1] ELSE [path |-> "", data |-> ""]]
  IN SelectSeq(resolved, LAMBDA it : it.path # "")

\* mutant of previousMessageHistory: newest message first
previousMessageHistoryReversed(session) ==
  [i \in 1..Len(session.messages) |->
     [role |-> session.messages[Len(session.messages) + 1 - i].role,
      content |-> session.messages[Len(session.messages) + 1 - i].content]]

previousMessageHistory(session) ==
  [i \in 1..Len(session.messages) |->
     [role |-> session.messages[i].role, content |-> session.messages[i].content]]

\* mutant of payload: the tags are read after clearTaggedImages has run
payloadAfterClear(session, text) ==
  [prev_context |-> session.prev_context,
   message_history |-> previousMessageHistory(session),
   query |-> text,
   was_context_valid_old |-> session.was_context_valid_old,
   is_follow_up_old |-> session.is_follow_up_old,
   related_images |-> <<>>]

payload(session, text) ==
  [prev_context |-> session.prev_context,
   message_history |-> previousMessageHistory(session),
   query |-> text,
   was_context_valid_old |-> session.was_context_valid_old,
   is_follow_up_old |-> session.is_follow_up_old,
   related_images |-> session.related_images]

\* mutant of sendAccepted: the loading guard is missing
sendAcceptedAlways(session) == TRUE

\* the guard of sendMessage: the send goes ahead
sendAccepted(session) == ~session.loading

\* ChatWindow handleSend -> onSend(t) -> sendMessage(active.id, text), up to the fetch
SendMessage(text) ==
  /\ appMounted
  /\ ActiveIdx(chat) # 0
  /\ LET sessionId == chat.activeSessionId
         session == chat.sessions[ActiveIdx(chat)]
     IN
     IF ~sendAccepted(session)
     THEN /\ lastCall' = Call("sendMessage", sessionId, 0, FALSE)
          /\ UNCHANGED chatVars
     ELSE /\ nextMid <= MaxMsgs
          /\ LET st1 == setSessionLoading(chat, sessionId, TRUE)
                 st2 == clearTaggedImages(st1, sessionId)
                 st3 == addUserMessage(st2, sessionId, text, userImages(session), nextMid)
             IN Commit(st3, typing, timers, settleCalls, ackPending)
          /\ requests' = requests \cup
               {[rid |-> nextMid, sessionId |-> sessionId, payload |-> payload(session, text)]}
          /\ nextMid' = nextMid + 1
          /\ lastCall' = Call("sendMessage", sessionId, nextMid, TRUE)
          /\ UNCHANGED <<nextSid, appMounted>>
  /\ UNCHANGED auto

\* Array.isArray(data.images) ? data.images.map(...) : []
normalizeImages(images) ==
  IF images = <<>> THEN <<>>
  ELSE [i \in 1..Len(images[1]) |->
          [path |-> Nullish(images[1][i].path, ""), data |-> Nullish(images[1][i].data, "")]]

\* Boolean(x) of an optional boolean
Boolean(o) == Nullish(o, FALSE)

\* the fetch of request r resolves with an ok status and the body data
NetworkSuccess(r, data) ==
  /\ r \in requests
  /\ nextMid <= MaxMsgs
  /\ requests' = requests \ {r}
  /\ LET st1 == addModelMessage(chat, r.sessionId, Nullish(data.answer, <<>>),
                                normalizeImages(data.images), FALSE, nextMid)
         st2 == setSessionMeta(st1, r.sessionId, <<Nullish(data.context, "")>>,
                               <<Boolean(data.was_context_valid)>>,
                               <<Boolean(data.is_follow_up)>>, <<>>, <<>>)
     IN /\ Commit(st2, typing, timers, settleCalls, ackPending)
        /\ nextMid' = IF st1 # chat THEN nextMid + 1 ELSE nextMid
        /\ lastCall' = Call("networkSuccess", r.sessionId, IF st1 # chat THEN nextMid ELSE 0,
                            Len(normalizeImages(data.images)) # 0)
  /\ UNCHANGED <<nextSid, appMounted, auto>>

\* mutant of catchBranch: the catch branch also resets the carried context
catchBranchResetsMeta(st, sessionId, id) ==
  setSessionMeta(addModelMessage(st, sessionId, APOLOGY, <<>>, FALSE, id),
                 sessionId, <<"">>, <<FALSE>>, <<FALSE>>, <<>>, <<>>)

\* the dispatches of the catch branch of sendMessage
catchBranch(st, sessionId, id) ==
  addModelMessage(st, sessionId, APOLOGY, <<>>, FALSE, id)

\* the fetch rejects, the status is not ok, or the body does not parse
NetworkFailure(r) ==
  /\ r \in requests
  /\ nextMid <= MaxMsgs
  /\ requests' = requests \ {r}
  /\ LET st1 == catchBranch(chat, r.sessionId, nextMid) IN
     /\ Commit(st1, typing, timers, settleCalls, ackPending)
     /\ nextMid' = IF st1 # chat THEN nextMid + 1 ELSE nextMid
     /\ lastCall' = Call("networkFailure", r.sessionId, IF st1 # chat THEN nextMid ELSE 0, FALSE)
  /\ UNCHANGED <<nextSid, appMounted, auto>>

-----------------------------------------------------------------------------
(* useTyping: the frame loop and the settle timer; the animation callbacks *)

Min(a, b) == IF a < b THEN a ELSE b

\* scrollIntoView(targetRef) on the mounted container
scrollIntoView(a) ==
  IF a.scrollHeight <= ClientHeight THEN a
  ELSE [a EXCEPT !.scrollTop = a.scrollHeight - ClientHeight,
                 !.scrollEvent = IF a.scrollTop # a.scrollHeight - ClientHeight THEN TRUE ELSE @,
                 !.commands = @ + 1]

\* step(time) of the bubble of message id: a frame arrives dt ms after the last one;
\* full: the history keeps the frame's dt and the jitter drawn
TickStep(id, dt, j, full) ==
  /\ id \in DOMAIN typing
  /\ typing[id].raf
  /\ LET m == MessageById(ActiveMessages(chat), id)
         inst == typing[id]
         e == Min(inst.elapsed + dt, ElapsedCap)
         advance == 8 * e >= dynamicDelay8(charAt(m.content, inst.charIndex), j)
         ci == IF advance THEN inst.charIndex + 1 ELSE inst.charIndex
         text == IF advance THEN Slice(m.content, ci) ELSE inst.typedText
         inst1 == IF ci < Len(m.content)
                  THEN [inst EXCEPT !.charIndex = ci, !.typedText = text,
                                    !.elapsed = IF advance THEN 0 ELSE e]
                  ELSE [inst EXCEPT !.charIndex = ci, !.typedText = m.content,
                                    !.isTypingComplete = TRUE, !.raf = FALSE,
                                    !.elapsed = 0]
         timers1 == IF ci < Len(m.content) THEN timers
                    ELSE timers \cup {[sessionId |-> chat.activeSessionId, messageId |-> id,
                                       hasImages |-> Len(m.images) # 0,
                                       stale |-> FALSE, mark |-> FALSE]}
     IN /\ Commit(chat, [typing EXCEPT ![id] = inst1], timers1, settleCalls, ackPending)
        /\ lastCall' = IF full
                       THEN [op |-> "tick", sid |-> chat.activeSessionId, mid |-> id,
                             flag |-> advance, dt |-> dt, j |-> j]
                       ELSE Call("tick", chat.activeSessionId, id, advance)
  /\ UNCHANGED <<nextSid, nextMid, appMounted, requests, auto>>

Tick(id, dt, j) == TickStep(id, dt, j, FALSE)

\* mutant of timerDispatches: the images of the message are not looked at
timerDispatchesWithImages(t) ==
  ~(IF t.stale THEN t.mark ELSE typing[t.messageId].dispatchedMark)

\* mutant of timerDispatches: the test of dispatchedMarkRef is inverted
timerDispatchesInverted(t) ==
  /\ ~t.hasImages
  /\ (IF t.stale THEN t.mark ELSE typing[t.messageId].dispatchedMark)

\* the settle timer dispatches: its bubble is gone (stale) or still mounted
timerDispatches(t) ==
  /\ ~t.hasImages
  /\ ~(IF t.stale THEN t.mark ELSE typing[t.messageId].dispatchedMark)

\* mutant of settleScrolls: isAtBottomRef is not read
settleScrollsAlways(t) == ~t.stale

\* if (isAtBottomRef.current) scrollIntoView(scrollContainerRef): the ref of a
\* mounted bubble holds the ChatWindow's isAtBottom (effect on [isAtBottom]);
\* the container ref of an unmounted ChatWindow is null
settleScrolls(t) == ~t.stale /\ auto.isAtBottom

\* the callback of setTimeout(..., 300) set by step() when typing finished
SettleTimer(t) ==
  /\ t \in timers
  /\ LET fire == timerDispatches(t)
         st1 == IF fire THEN markMessageTyped(chat, t.sessionId, t.messageId) ELSE chat
         calls1 == IF fire THEN [settleCalls EXCEPT ![t.messageId] = @ + 1] ELSE settleCalls
         typ1 == IF t.stale THEN typing
                 ELSE IF t.hasImages
                      THEN [typing EXCEPT ![t.messageId].showImages = TRUE,
                                          \* the grid mounts hidden and animates to show
                                          ![t.messageId].animPending =
                                             @ \/ ~typing[t.messageId].showImages]
                 ELSE IF fire THEN [typing EXCEPT ![t.messageId].dispatchedMark = TRUE]
                 ELSE typing
     IN /\ Commit(st1, typ1, timers \ {t}, calls1, ackPending)
        /\ lastCall' = Call(IF t.stale THEN "staleSettleTimer" ELSE "settleTimer",
                            t.sessionId, t.messageId, fire)
        /\ auto' = IF fire /\ settleScrolls(t) THEN scrollIntoView(auto) ELSE auto
  /\ UNCHANGED <<nextSid, nextMid, appMounted, requests>>

\* the guard of ImageMessage's onAnimationComplete
animationDispatches(inst, m) == ~inst.dispatchedMark /\ ~m.typed

\* ImageMessage onAnimationComplete of the image grid of message id
ImageAnimationComplete(id) ==
  /\ id \in DOMAIN typing
  /\ typing[id].animPending
  /\ LET m == MessageById(ActiveMessages(chat), id)
         fire == animationDispatches(typing[id], m)
         st1 == IF fire THEN markMessageTyped(chat, chat.activeSessionId, id) ELSE chat
         calls1 == IF fire THEN [settleCalls EXCEPT ![id] = @ + 1] ELSE settleCalls
         typ1 == [typing EXCEPT ![id].animPending = FALSE,
                                ![id].dispatchedMark = IF fire THEN TRUE ELSE @]
     IN /\ Commit(st1, typ1, timers, calls1, ackPending)
        /\ lastCall' = Call("imageAnimationComplete", chat.activeSessionId, id, fire)
        \* scrollIntoView(scrollRef), whatever isAtBottom is
        /\ auto' = IF fire THEN scrollIntoView(auto) ELSE auto
  /\ UNCHANGED <<nextSid, nextMid, appMounted, requests>>

\* ChatWindow onAnimationComplete of the entrance animation of a user message
EntranceAnimationComplete(id) ==
  /\ id \in DOMAIN typing
  /\ typing[id].entering
  /\ Commit(markMessageAnimated(chat, chat.activeSessionId, id),
            [typing EXCEPT ![id].entering = FALSE], timers, settleCalls, ackPending)
  /\ lastCall' = Call("entranceAnimationComplete", chat.activeSessionId, id, TRUE)
  /\ UNCHANGED <<nextSid, nextMid, appMounted, requests, auto>>

\* the image paths whose tag button is on screen
shownPaths ==
  LET msgs == ActiveMessages(chat) IN
  UNION {{msgs[k].images[i].path : i \in 1..Len(msgs[k].images)} :
           k \in {n \in 1..Len(msgs) : imagesShown(typing[msgs[n].id], msgs[n])}}

\* ImageModal button: onToggleImage(path) -> dispatch(toggleTaggedImage)
ToggleImage(path) ==
  /\ appMounted
  /\ ActiveIdx(chat) # 0
  /\ path \in shownPaths
  /\ Commit(toggleTaggedImage(chat, chat.activeSessionId, path),
            typing, timers, settleCalls, ackPending)
  /\ lastCall' = Call("toggleImage", chat.activeSessionId, 0, TRUE)
  /\ UNCHANGED <<nextSid, nextMid, appMounted, requests, auto>>

RECURSIVE updateStatusAll(_, _)
\* newIds.forEach(id => updateStatus(id)), updateStatus = dispatch(setSessionStatus(id))
updateStatusAll(st, ids) ==
  IF ids = {} THEN st
  ELSE LET id == CHOOSE x \in ids : TRUE IN
       updateStatusAll(setSessionStatus(st, id), ids \ {id})

\* Sidebar: the frame callback of the effect runs updateStatus for its newIds
AckFrame ==
  /\ ackPending # <<>>
  /\ Commit(updateStatusAll(chat, Head(ackPending)), typing, timers, settleCalls,
            Tail(ackPending))
  /\ lastCall' = Call("ackFrame", Null, 0, TRUE)
  /\ UNCHANGED <<nextSid, nextMid, appMounted, requests, auto>>

\* The page is loaded again: redux-persist restores the whole chat state (no
\* whitelist or blacklist), fetches, timers, frames and refs are gone, ChatApp
\* mounts (bootstrap effect) and with it the ChatWindow of the active session.
Reload ==
  /\ appMounted
  /\ Len(chat.sessions) = 0 => nextSid <= MaxSessions
  /\ LET st1 == bootstrapFirstSession(chat, nextSid) IN
     /\ nextSid' = IF st1 # chat THEN nextSid + 1 ELSE nextSid
     /\ CommitWith(TRUE, {}, st1, EmptyFn, {}, settleCalls, <<>>)
  /\ requests' = {}
  /\ lastCall' = Call("reload", chat.activeSessionId, nextMid,
                      sessionChangeTargets(ActiveMessages(chat)) # {})
  /\ UNCHANGED <<nextMid, appMounted, auto>>

-----------------------------------------------------------------------------
(* EntranceAnimationComplete and AckFrame write only the animated flag of a
   user message and the new flag of a session.  No handler in Next reads
   either flag, so the two callbacks are left out of the interleaving. *)

Next ==
  \/ Bootstrap
  \/ CreateNew
  \/ \E id \in SessionIds : SwitchSession(id)
  \/ \E id \in SessionIds : RemoveSession(id)
  \/ \E text \in Queries : SendMessage(text)
  \/ \E r \in requests, data \in Responses : NetworkSuccess(r, data)
  \/ \E r \in requests : NetworkFailure(r)
  \/ \E id \in MessageIds, dt \in FrameDts, j \in Jitters : Tick(id, dt, j)
  \/ \E t \in timers : SettleTimer(t)
  \/ \E id \in MessageIds : ImageAnimationComplete(id)
  \/ \E path \in {"p1", ""} : ToggleImage(path)

Spec == Init /\ [][Next]_vars

-----------------------------------------------------------------------------
(* The store on its own: every reducer of the slice applied with any argument, *)
(* also ids that are absent.  Only chat, the id counters and lastCall change.  *)

MaxStoreMsgs == 2

StoreTexts == {<<"q">>}
StoreImages == {<<>>}
StorePaths == {"p1"}

\* payloads of setSessionMeta
MetaPayloads ==
  { [prev_context |-> <<"ctx">>, was_context_valid_old |-> <<FALSE>>,
     is_follow_up_old |-> <<>>, related_images |-> <<<<"p1", "p1">>>>, title |-> <<"T">>] }

storeFrame == UNCHANGED <<appMounted, requests, typing, timers, seen, ackPending,
                          settleCalls, lastCall, auto>>

DoBootstrapFirstSession ==
  /\ nextSid <= MaxSessions
  /\ chat' = bootstrapFirstSession(chat, nextSid)
  /\ nextSid' = IF chat' # chat THEN nextSid + 1 ELSE nextSid
  /\ UNCHANGED nextMid /\ storeFrame

DoAddSession ==
  /\ nextSid <= MaxSessions
  /\ chat' = addSession(chat, nextSid, "New Chat")
  /\ nextSid' = nextSid + 1
  /\ UNCHANGED nextMid /\ storeFrame

DoSwitchSession(id) ==
  /\ chat' = switchSession(chat, id)
  /\ UNCHANGED <<nextSid, nextMid>> /\ storeFrame

DoRemoveSession(id) ==
  /\ chat' = removeSession(chat, id)
  /\ UNCHANGED <<nextSid, nextMid>> /\ storeFrame

DoAddUserMessage(sid, text, images) ==
  /\ nextMid <= MaxStoreMsgs
  /\ chat' = addUserMessage(chat, sid, text, images, nextMid)
  /\ nextMid' = IF HasSession(chat, sid) THEN nextMid + 1 ELSE nextMid
  /\ UNCHANGED nextSid /\ storeFrame

DoAddModelMessage(sid, text, images, typed) ==
  /\ nextMid <= MaxStoreMsgs
  /\ chat' = addModelMessage(chat, sid, text, images, typed, nextMid)
  /\ nextMid' = IF HasSession(chat, sid) THEN nextMid + 1 ELSE nextMid
  /\ UNCHANGED nextSid /\ storeFrame

DoSetSessionMeta(sid, p) ==
  /\ chat' = setSessionMeta(chat, sid, p.prev_context, p.was_context_valid_old,
                            p.is_follow_up_old, p.related_images, p.title)
  /\ UNCHANGED <<nextSid, nextMid>> /\ storeFrame

DoSetSessionStatus(id) ==
  /\ chat' = setSessionStatus(chat, id)
  /\ UNCHANGED <<nextSid, nextMid>> /\ storeFrame

DoToggleTaggedImage(sid, path) ==
  /\ chat' = toggleTaggedImage(chat, sid, path)
  /\ UNCHANGED <<nextSid, nextMid>> /\ storeFrame

DoClearTaggedImages(sid) ==
  /\ chat' = clearTaggedImages(chat, sid)
  /\ UNCHANGED <<nextSid, nextMid>> /\ storeFrame

DoSetSessionLoading(sid, loading) ==
  /\ chat' = setSessionLoading(chat, sid, loading)
  /\ UNCHANGED <<nextSid, nextMid>> /\ storeFrame

DoMarkMessageTyped(sid, mid) ==
  /\ chat' = markMessageTyped(chat, sid, mid)
  /\ UNCHANGED <<nextSid, nextMid>> /\ storeFrame

DoMarkMessageAnimated(sid, mid) ==
  /\ chat' = markMessageAnimated(chat, sid, mid)
  /\ UNCHANGED <<nextSid, nextMid>> /\ storeFrame

NextStore ==
  \/ DoBootstrapFirstSession
  \/ DoAddSession
  \/ \E id \in SessionIds : DoSwitchSession(id)
  \/ \E id \in SessionIds : DoRemoveSession(id)
  \/ \E sid \in SessionIds, text \in StoreTexts, images \in StoreImages :
       DoAddUserMessage(sid, text, images)
  \/ \E sid \in SessionIds, text \in StoreTexts, images \in StoreImages, typed \in BOOLEAN :
       DoAddModelMessage(sid, text, images, typed)
  \/ \E sid \in SessionIds, p \in MetaPayloads : DoSetSessionMeta(sid, p)
  \/ \E id \in SessionIds : DoSetSessionStatus(id)
  \/ \E sid \in SessionIds, path \in StorePaths : DoToggleTaggedImage(sid, path)
  \/ \E sid \in SessionIds : DoClearTaggedImages(sid)
  \/ \E sid \in SessionIds, loading \in BOOLEAN : DoSetSessionLoading(sid, loading)
  \/ \E sid \in SessionIds, mid \in 1..MaxStoreMsgs : DoMarkMessageTyped(sid, mid)
  \/ \E sid \in SessionIds, mid \in 1..MaxStoreMsgs : DoMarkMessageAnimated(sid, mid)

SpecStore == Init /\ [][NextStore]_vars

-----------------------------------------------------------------------------
(* The same program with the scheduling the browser guarantees: a requested
   animation frame is delivered, a timer that was set fires, a running image
   animation completes.  Messages are finitely many, so fairness of each kind
   of callback as a whole is fairness of every single callback. *)

\* messages created in the behaviours checked for liveness
MaxLiveMsgs == 2

\* the handlers that create a message, while ids are left
LiveSendMessage == (\E text \in Queries : SendMessage(text)) /\ nextMid' <= MaxLiveMsgs + 1

LiveNetworkSuccess ==
  (\E r \in requests, data \in Responses : NetworkSuccess(r, data))
  /\ nextMid' <= MaxLiveMsgs + 1

LiveNetworkFailure == (\E r \in requests : NetworkFailure(r)) /\ nextMid' <= MaxLiveMsgs + 1

NextLive ==
  \/ Bootstrap
  \/ CreateNew
  \/ \E id \in SessionIds : SwitchSession(id)
  \/ \E id \in SessionIds : RemoveSession(id)
  \/ LiveSendMessage
  \/ LiveNetworkSuccess
  \/ LiveNetworkFailure
  \/ \E id \in MessageIds, dt \in FrameDts, j \in Jitters : Tick(id, dt, j)
  \/ \E t \in timers : SettleTimer(t)
  \/ \E id \in MessageIds : ImageAnimationComplete(id)
  \/ \E path \in {"p1", ""} : ToggleImage(path)

SpecLive ==
  /\ Init /\ [][NextLive]_vars
  /\ WF_vars(\E id \in MessageIds, dt \in FrameDts, j \in Jitters : Tick(id, dt, j))
  /\ WF_vars(\E t \in timers : SettleTimer(t))
  /\ WF_vars(\E id \in MessageIds : ImageAnimationComplete(id))

-----------------------------------------------------------------------------
(* useAutoScroll of one bubble inside ChatWindow's scroll container *)

\* delay option passed by MessageBubble, in ms
delay == 50

\* handleScroll: px from bottom
threshold == 50

\* granularity of the clock, in ms
TimeStep == 25

\* scrollHeight values of the container as the observed bubble grows, in px
ContentHeights == {ClientHeight, ClientHeight + 40, ClientHeight + 200}

\* container.scrollTop values the user scrolls to, in px
ScrollTops == {0, 40, 160, 200}

scrollFrame == UNCHANGED <<chat, nextSid, nextMid, appMounted, requests, typing, timers,
                           seen, ackPending, settleCalls, lastCall>>

\* mutant of timerScrolls: the timer does not read the flag again when it fires
\* (it was set only because the flag was true)
timerScrollsCaptured(a) == TRUE

\* the test in the setTimeout callback
timerScrolls(a) == a.enabledRef

\* mutant of clearTimeout: the pending timer is left running
clearTimeoutSkipped(ts) == ts

\* if (timeout) clearTimeout(timeout): the handle is the timer set last, which
\* is the last to fire
clearTimeout(ts) == IF ts = <<>> THEN <<>> ELSE SubSeq(ts, 1, Len(ts) - 1)

\* mutant of cleanupTimeout: the cleanup leaves the pending timer running
cleanupTimeoutSkipped(ts) == ts

\* the effect's cleanup: if (timeout) clearTimeout(timeout)
cleanupTimeout(ts) == clearTimeout(ts)

\* the bubble mounts: useRef(enabled), the effect creates and starts the observer
MountAutoScroll ==
  /\ ~auto.mounted
  /\ auto' = [auto EXCEPT !.mounted = TRUE, !.enabledRef = auto.isAtBottom,
                          !.timeout = <<>>, !.last = "mount"]
  /\ scrollFrame

\* the ResizeObserver callback: the first notification after observe(), then
\* one for every growth of the bubble (the container's content grows to h)
ResizeObserved(h) ==
  /\ auto.mounted
  /\ IF auto.observed THEN h > auto.scrollHeight ELSE h >= auto.scrollHeight
  /\ auto' = [auto EXCEPT !.observed = TRUE,
                          !.scrollHeight = h,
                          !.timeout = IF auto.enabledRef
                                      THEN Append(clearTimeout(@), delay) ELSE @,
                          !.sinceNotify = IF auto.enabledRef THEN 0 ELSE @,
                          !.resets = IF auto.enabledRef /\ auto.timeout # <<>>
                                     THEN @ + 1 ELSE @,
                          !.last = "resize"]
  /\ scrollFrame

\* time passes while a timer is pending; a timer that is due fires first
AdvanceClock ==
  /\ auto.timeout # <<>>
  /\ auto.timeout[1] > 0
  /\ auto' = [auto EXCEPT !.timeout = [i \in 1..Len(@) |->
                                        IF @[i] > TimeStep THEN @[i] - TimeStep ELSE 0],
                          !.sinceNotify = IF @ + TimeStep < delay THEN @ + TimeStep ELSE delay,
                          !.last = "clock"]
  /\ scrollFrame

\* the setTimeout callback set by the ResizeObserver callback; it runs whenever
\* its timer is still set, whether or not the hook is still mounted
TimerFires ==
  /\ auto.timeout # <<>>
  /\ auto.timeout[1] = 0
  /\ auto' = [(IF timerScrolls(auto) THEN scrollIntoView(auto) ELSE auto)
                EXCEPT !.timeout = Tail(@), !.last = "timer"]
  /\ scrollFrame

\* the user scrolls the container
UserScroll(top) ==
  /\ auto.mounted
  /\ top # auto.scrollTop
  /\ top <= auto.scrollHeight - ClientHeight
  /\ auto' = [auto EXCEPT !.scrollTop = top, !.scrollEvent = TRUE, !.last = "userScroll"]
  /\ scrollFrame

\* ChatWindow handleScroll and the render that follows setIsAtBottom
handleScroll ==
  /\ auto.mounted
  /\ auto.scrollEvent
  /\ auto' = [auto EXCEPT !.isAtBottom =
                            (auto.scrollHeight - auto.scrollTop - ClientHeight < threshold),
                          !.scrollEvent = FALSE,
                          !.last = "handleScroll"]
  /\ scrollFrame

\* useEffect(() => { enabledRef.current = enabled }, [enabled]), after the render
EnabledEffect ==
  /\ auto.mounted
  /\ auto.enabledRef # auto.isAtBottom
  /\ auto' = [auto EXCEPT !.enabledRef = auto.isAtBottom, !.last = "effect"]
  /\ scrollFrame

\* cleanup: observer.disconnect(), clearTimeout(timeout); ChatWindow unmounts
\* with its bubbles, so its state and its container go too
UnmountAutoScroll ==
  /\ auto.mounted
  /\ auto' = [useAutoScrollInit EXCEPT !.last = "unmount"]
  /\ scrollFrame

NextScroll ==
  \/ MountAutoScroll
  \/ \E h \in ContentHeights : ResizeObserved(h)
  \/ AdvanceClock
  \/ TimerFires
  \/ \E top \in ScrollTops : UserScroll(top)
  \/ handleScroll
  \/ EnabledEffect
  \/ UnmountAutoScroll

SpecScroll == Init /\ [][NextScroll]_vars

-----------------------------------------------------------------------------
(* useAutoScroll on its own: the observed element is unmounted while the     *)
(* scroll target stays in the document, so a timer that survived the cleanup *)
(* would still find a container to scroll.                                   *)

\* the effect's cleanup: observer.disconnect() drops the notifications not yet
\* delivered, then the pending timer is cleared; the history keeps the number
\* of timers pending and the enabled flag at that moment
TeardownAutoScroll ==
  /\ auto.mounted
  /\ auto' = [auto EXCEPT !.mounted = FALSE,
                          !.observed = FALSE,
                          !.timeout = cleanupTimeout(@),
                          !.last = "teardown"]
  /\ lastCall' = Call("teardown", Null, Len(auto.timeout), auto.enabledRef)
  /\ UNCHANGED <<chat, nextSid, nextMid, appMounted, requests, typing, timers,
                 seen, ackPending, settleCalls>>

\* one instance of the hook from its mount to its teardown and after
NextTeardown ==
  \/ lastCall.op # "teardown" /\ MountAutoScroll
  \/ \E h \in ContentHeights : ResizeObserved(h)
  \/ AdvanceClock
  \/ TimerFires
  \/ \E top \in ScrollTops : UserScroll(top)
  \/ handleScroll
  \/ EnabledEffect
  \/ TeardownAutoScroll

SpecTeardown == Init /\ [][NextTeardown]_vars

-----------------------------------------------------------------------------
(* Tagging and sending in one session whose replies carry images: two images
   with the same path and one image without a path (normalized to ""). *)

Img1b == [path |-> <<"p1">>, data |-> <<"d2">>]

ImgNoPath == [path |-> <<>>, data |-> <<"d0">>]

TagResponses ==
  { [answer |-> <<>>, images |-> <<<<Img1, Img1b, ImgNoPath>>>>, context |-> <<>>,
     was_context_valid |-> <<>>, is_follow_up |-> <<>>] }

NextTags ==
  \/ Bootstrap
  \/ \E text \in Queries : SendMessage(text)
  \/ \E r \in requests, data \in TagResponses : NetworkSuccess(r, data)
  \/ \E id \in MessageIds, dt \in FrameDts, j \in Jitters : Tick(id, dt, j)
  \/ \E t \in timers : SettleTimer(t)
  \/ \E id \in MessageIds : ImageAnimationComplete(id)
  \/ \E path \in {"p1", ""} : ToggleImage(path)

SpecTags == Init /\ [][NextTags]_vars

-----------------------------------------------------------------------------
(* The tag reducers on one session whose tag list is any list the toggle
   button can build: no path twice, any order. *)

TagPaths == {"p1", "p2", "p3", ""}

TagLists ==
  {l \in UNION {[1..n -> TagPaths] : n \in 0..Cardinality(TagPaths)} :
     \A a, b \in 1..Len(l) : l[a] = l[b] => a = b}

\* history of the tag reducers: before is the tag list before the call, twice
\* says that the call before it was the same toggle, before2 is the tag list
\* before that one
TagCall(op, sid, path, before, twice, before2) ==
  [op |-> op, sid |-> sid, path |-> path, before |-> before,
   twice |-> twice, before2 |-> before2]

InitTags ==
  /\ \E l \in TagLists :
       chat = [sessions |-> <<[createNewSession(1, "First Chat") EXCEPT
                                 !.related_images = l]>>,
               activeSessionId |-> 1]
  /\ nextSid = 2
  /\ nextMid = 1
  /\ appMounted = FALSE
  /\ requests = {}
  /\ typing = EmptyFn
  /\ timers = {}
  /\ seen = {}
  /\ ackPending = <<>>
  /\ settleCalls = [id \in MessageIds |-> 0]
  /\ lastCall = TagCall("init", Null, "", <<>>, FALSE, <<>>)
  /\ auto = useAutoScrollInit

TagsOf(st, sid) == IF HasSession(st, sid) THEN SessionOf(st, sid).related_images ELSE <<>>

DoToggleTag(sid, path) ==
  /\ chat' = toggleTaggedImage(chat, sid, path)
  /\ LET same == lastCall.op = "toggleTaggedImage" /\ lastCall.sid = sid
                 /\ lastCall.path = path
     IN lastCall' = TagCall("toggleTaggedImage", sid, path, TagsOf(chat, sid), same,
                            IF same THEN lastCall.before ELSE <<>>)
  /\ UNCHANGED <<nextSid, nextMid, appMounted, requests, typing, timers, seen,
                 ackPending, settleCalls, auto>>

DoClearTags(sid) ==
  /\ chat' = clearTaggedImages(chat, sid)
  /\ lastCall' = TagCall("clearTaggedImages", sid, "", TagsOf(chat, sid), FALSE, <<>>)
  /\ UNCHANGED <<nextSid, nextMid, appMounted, requests, typing, timers, seen,
                 ackPending, settleCalls, auto>>

NextTagStore ==
  \/ \E sid \in SessionIds, path \in TagPaths : DoToggleTag(sid, path)
  \/ \E sid \in SessionIds : DoClearTags(sid)

SpecTagStore == InitTags /\ [][NextTagStore]_vars

-----------------------------------------------------------------------------
(* The session list on its own: the reducers that create, select, remove and
   acknowledge sessions, with any id, present or not. *)

MaxListSessions == 4

MaxListMsgs == 2

ListIds == 1..MaxListSessions

listFrame == UNCHANGED <<nextMid, appMounted, requests, typing, timers, seen,
                         ackPending, settleCalls, auto>>

ListBootstrapFirstSession ==
  /\ nextSid <= MaxListSessions
  /\ chat' = bootstrapFirstSession(chat, nextSid)
  /\ nextSid' = IF chat' # chat THEN nextSid + 1 ELSE nextSid
  /\ lastCall' = Call("bootstrapFirstSession", nextSid, 0, Len(chat.sessions) = 0)
  /\ listFrame

ListAddSession ==
  /\ nextSid <= MaxListSessions
  /\ chat' = addSession(chat, nextSid, "New Chat")
  /\ nextSid' = nextSid + 1
  /\ lastCall' = Call("addSession", nextSid, 0, TRUE)
  /\ listFrame

ListSwitchSession(id) ==
  /\ chat' = switchSession(chat, id)
  /\ lastCall' = Call("switchSession", id, FindIdx(chat.sessions, id, 1), FALSE)
  /\ UNCHANGED nextSid
  /\ listFrame

\* the history keeps the place of the removed session in the list (0: absent)
\* and whether it was the active one
ListRemoveSession(id) ==
  /\ chat' = removeSession(chat, id)
  /\ lastCall' = Call("removeSession", id, FindIdx(chat.sessions, id, 1),
                      chat.activeSessionId = id)
  /\ UNCHANGED nextSid
  /\ listFrame

ListSetSessionStatus(id) ==
  /\ chat' = setSessionStatus(chat, id)
  /\ lastCall' = Call("setSessionStatus", id, FindIdx(chat.sessions, id, 1), FALSE)
  /\ UNCHANGED nextSid
  /\ listFrame

ListAddUserMessage(id, text) ==
  /\ nextMid <= MaxListMsgs
  /\ chat' = addUserMessage(chat, id, text, <<>>, nextMid)
  /\ nextMid' = nextMid + 1
  /\ lastCall' = Call("addUserMessage", id, nextMid, HasSession(chat, id))
  /\ UNCHANGED <<nextSid, appMounted, requests, typing, timers, seen,
                 ackPending, settleCalls, auto>>

NextList ==
  \/ ListBootstrapFirstSession
  \/ ListAddSession
  \/ \E id \in ListIds, text \in Queries : ListAddUserMessage(id, text)
  \/ \E id \in ListIds : ListSwitchSession(id)
  \/ \E id \in ListIds : ListRemoveSession(id)
  \/ \E id \in ListIds : ListSetSessionStatus(id)

SpecList == Init /\ [][NextList]_vars

-----------------------------------------------------------------------------
(* The behaviours of Spec in which no settle timer of an unmounted bubble
   dispatches markMessageTyped (such a timer stays pending). *)

MountedSettleTimer ==
  \E t \in timers : SettleTimer(t) /\ ~(t.stale /\ timerDispatches(t))

NextMounted ==
  \/ Bootstrap
  \/ CreateNew
  \/ \E id \in SessionIds : SwitchSession(id)
  \/ \E id \in SessionIds : RemoveSession(id)
  \/ \E text \in Queries : SendMessage(text)
  \/ \E r \in requests, data \in Responses : NetworkSuccess(r, data)
  \/ \E r \in requests : NetworkFailure(r)
  \/ \E id \in MessageIds, dt \in FrameDts, j \in Jitters : Tick(id, dt, j)
  \/ MountedSettleTimer
  \/ \E id \in MessageIds : ImageAnimationComplete(id)
  \/ \E path \in {"p1", ""} : ToggleImage(path)

SpecMounted == Init /\ [][NextMounted]_vars

-----------------------------------------------------------------------------
(* The program with reloads of the page at any moment. *)

NextReload ==
  \/ Bootstrap
  \/ CreateNew
  \/ \E id \in SessionIds : SwitchSession(id)
  \/ \E id \in SessionIds : RemoveSession(id)
  \/ \E text \in Queries : SendMessage(text)
  \/ \E r \in requests, data \in Responses : NetworkSuccess(r, data)
  \/ \E r \in requests : NetworkFailure(r)
  \/ \E id \in MessageIds, dt \in FrameDts, j \in Jitters : Tick(id, dt, j)
  \/ \E t \in timers : SettleTimer(t)
  \/ \E id \in MessageIds : ImageAnimationComplete(id)
  \/ \E path \in {"p1", ""} : ToggleImage(path)
  \/ Reload

SpecReload == Init /\ [][NextReload]_vars

-----------------------------------------------------------------------------
(* The program with the frame time and the jitter of every step() kept in the
   history. *)

NextTyping ==
  \/ Bootstrap
  \/ CreateNew
  \/ \E id \in SessionIds : SwitchSession(id)
  \/ \E id \in SessionIds : RemoveSession(id)
  \/ \E text \in Queries : SendMessage(text)
  \/ \E r \in requests, data \in Responses : NetworkSuccess(r, data)
  \/ \E r \in requests : NetworkFailure(r)
  \/ \E id \in MessageIds, dt \in FrameDts, j \in Jitters : TickStep(id, dt, j, TRUE)
  \/ \E t \in timers : SettleTimer(t)
  \/ \E id \in MessageIds : ImageAnimationComplete(id)
  \/ \E path \in {"p1", ""} : ToggleImage(path)

SpecTyping == Init /\ [][NextTyping]_vars

-----------------------------------------------------------------------------
(* One ChatWindow whose container overflows and is scrolled by the user while
   replies are revealed: isAtBottom changes and the bubbles are rendered again. *)

\* scrollHeight of the container once the conversation overflows it, in px
OverflowHeight == ClientHeight + 200

\* a reveal is under way in some bubble: a frame or a settle timer is pending
Revealing == timers # {} \/ \E id \in DOMAIN typing : typing[id].raf

\* the user scrolls the container to top; handleScroll sets isAtBottom and the
\* ChatWindow renders its bubbles again
ContainerScrolled(top) ==
  /\ appMounted
  /\ ActiveIdx(chat) # 0
  /\ top <= OverflowHeight - ClientHeight
  /\ <<OverflowHeight, top>> # <<auto.scrollHeight, auto.scrollTop>>
  /\ LET b == OverflowHeight - top - ClientHeight < threshold IN
     /\ auto' = [auto EXCEPT !.scrollHeight = OverflowHeight,
                             !.scrollTop = top,
                             !.isAtBottom = b,
                             !.last = IF b # auto.isAtBottom /\ Revealing
                                      THEN "flagChangedInReveal" ELSE "handleScroll"]
     /\ lastCall' = Call("handleScroll", chat.activeSessionId, 0, b)
  /\ Commit(chat, typing, timers, settleCalls, ackPending)
  /\ UNCHANGED <<nextSid, nextMid, appMounted, requests>>

NextBottom ==
  \/ Bootstrap
  \/ \E text \in Queries : SendMessage(text)
  \/ \E r \in requests, data \in Responses : NetworkSuccess(r, data)
  \/ \E r \in requests : NetworkFailure(r)
  \/ \E id \in MessageIds, dt \in FrameDts, j \in Jitters : Tick(id, dt, j)
  \/ \E t \in timers : SettleTimer(t)
  \/ \E id \in MessageIds : ImageAnimationComplete(id)
  \/ \E path \in {"p1", ""} : ToggleImage(path)
  \/ \E top \in ScrollTops : ContainerScrolled(top)

SpecBottom == Init /\ [][NextBottom]_vars

-----------------------------------------------------------------------------
(* The session list with the Sidebar's frames: sessions are created, switched,
   removed and written to (a send that fails) while their frame is pending. *)

NextAck ==
  \/ Bootstrap
  \/ CreateNew
  \/ \E id \in SessionIds : SwitchSession(id)
  \/ \E id \in SessionIds : RemoveSession(id)
  \/ \E text \in Queries : SendMessage(text)
  \/ \E r \in requests : NetworkFailure(r)
  \/ AckFrame

SpecAck == Init /\ [][NextAck]_vars

-----------------------------------------------------------------------------
(* Claims *)

Outstanding(s) == {r \in requests : r.sessionId = s}

\* C1: in every reachable state each session has at most one request that was
\* issued and is not yet answered.
C1_AtMostOneOutstanding ==
  \A s \in SessionIds : Cardinality(Outstanding(s)) <= 1

\* C3: markMessageTyped is dispatched at most once for every message id, whoever
\* dispatches it (settle timer, image animation callback, session-change effect).
C3_SettledAtMostOnce ==
  \A id \in MessageIds : settleCalls[id] <= 1

\* C4: a settle timer whose bubble was unmounted before the message was settled
\* never dispatches markMessageTyped.
C4_UnmountedNeverSettles ==
  lastCall.op = "staleSettleTimer" => ~lastCall.flag



\* C2: a sendMessage call for a session whose loading flag is set changes neither
\* the store (no message, tags kept) nor the set of requests in flight.
C2_SendWhileLoadingRejected ==
  [][(/\ lastCall'.op = "sendMessage"
      /\ HasSession(chat, lastCall'.sid)
      /\ SessionOf(chat, lastCall'.sid).loading)
     => (chat' = chat /\ requests' = requests /\ nextMid' = nextMid)]_vars

\* a send was rejected while its session was loading with a request in flight
C2_Witness ==
  /\ lastCall.op = "sendMessage"
  /\ ~lastCall.flag
  /\ SessionOf(chat, lastCall.sid).loading
  /\ Outstanding(lastCall.sid) # {}

\* C9: when the single attempt of a request fails, its session (if it still
\* exists) gains exactly one model message, the apology without images, no
\* request is issued again, and prev_context, was_context_valid_old and
\* is_follow_up_old keep their values.
C9_FailureAppendsApologyOnly ==
  [][(/\ lastCall'.op = "networkFailure"
      /\ lastCall'.mid = nextMid
      /\ nextMid' = nextMid + 1)
     => (/\ HasSession(chat, lastCall'.sid)
         /\ chat'.activeSessionId = chat.activeSessionId
         /\ Len(chat'.sessions) = Len(chat.sessions)
         /\ LET i == FindIdx(chat.sessions, lastCall'.sid, 1)
                before == chat.sessions[i]
                after == chat'.sessions[i]
            IN /\ after.messages =
                    Append(before.messages,
                           [id |-> nextMid, role |-> "model", content |-> APOLOGY,
                            images |-> <<>>, animated |-> FALSE, typed |-> FALSE])
               /\ after.prev_context = before.prev_context
               /\ after.was_context_valid_old = before.was_context_valid_old
               /\ after.is_follow_up_old = before.is_follow_up_old
         /\ requests' \subseteq requests
         /\ Cardinality(requests') = Cardinality(requests) - 1)]_vars

\* a request failed in a session whose carried context an earlier reply had changed
C9_Witness ==
  /\ lastCall.op = "networkFailure"
  /\ lastCall.mid # 0
  /\ HasSession(chat, lastCall.sid)
  /\ SessionOf(chat, lastCall.sid).prev_context # DEFAULT_GREETING
  /\ LET msgs == SessionOf(chat, lastCall.sid).messages IN
     msgs[Len(msgs)].content = APOLOGY

\* C10: an accepted send leaves the session's related_images empty and puts the
\* tags as they were just before the send into the request's related_images.
C10_SendClearsTags ==
  [][(/\ lastCall'.op = "sendMessage"
      /\ lastCall'.flag
      /\ lastCall'.mid = nextMid
      /\ nextMid' = nextMid + 1)
     => (/\ SessionOf(chat', lastCall'.sid).related_images = <<>>
         /\ \E r \in requests' \ requests :
              /\ r.rid = nextMid
              /\ r.sessionId = lastCall'.sid
              /\ r.payload.related_images = SessionOf(chat, lastCall'.sid).related_images
         /\ Cardinality(requests' \ requests) = 1)]_vars

\* a send was accepted with a tagged image: the request carries it, the store holds none
C10_Witness ==
  /\ lastCall.op = "sendMessage"
  /\ lastCall.flag
  /\ \E r \in requests : r.rid = lastCall.mid /\ r.payload.related_images = <<"p1">>
  /\ SessionOf(chat, lastCall.sid).related_images = <<>>


\* the message with that id, wherever it is in the store (<<>> if nowhere)
Lookup(st, id) ==
  LET hits == {<<i, k>> \in (1..Len(st.sessions)) \X MessageIds :
                 k <= Len(st.sessions[i].messages) /\ st.sessions[i].messages[k].id = id}
  IN IF hits = {} THEN <<>>
     ELSE LET h == CHOOSE x \in hits : TRUE IN <<st.sessions[h[1]].messages[h[2]]>>

\* C5: under every store operation the typed flag and the animated flag of a
\* message that stays in the store never go from true to false.
C5_FlagsMonotonic ==
  [][\A id \in MessageIds :
       (Lookup(chat, id) # <<>> /\ Lookup(chat', id) # <<>>)
       => /\ Lookup(chat, id)[1].typed => Lookup(chat', id)[1].typed
          /\ Lookup(chat, id)[1].animated => Lookup(chat', id)[1].animated]_vars

\* a settled model message and an animated user message, in a session that a
\* later setSessionLoading left loading
C5_Witness ==
  \E i \in 1..Len(chat.sessions) :
    /\ chat.sessions[i].loading
    /\ \E k \in 1..Len(chat.sessions[i].messages) :
         LET m == chat.sessions[i].messages[k] IN m.role = "model" /\ m.typed
    /\ \E k \in 1..Len(chat.sessions[i].messages) :
         LET m == chat.sessions[i].messages[k] IN m.role = "user" /\ m.animated


\* the message id in the session shown, or <<>> when it is not on screen
Shown(id) ==
  IF id \in DOMAIN typing THEN <<MessageById(ActiveMessages(chat), id)>> ELSE <<>>

\* the bubble of id is on screen for a model message without images not yet settled
RevealingText(id) ==
  /\ Shown(id) # <<>>
  /\ Shown(id)[1].role = "model"
  /\ ~Shown(id)[1].typed
  /\ Len(Shown(id)[1].images) = 0

\* C6: an accepted send of q appends exactly one user message q; the successful
\* reply a without images to that request appends exactly one model message a
\* behind it; and, frames and timers being delivered, while the session stays on
\* screen that model message is eventually settled with the session not loading.
C6_SendReplySettle ==
  /\ [][/\ (lastCall'.op = "sendMessage" /\ lastCall'.flag /\ nextMid' = nextMid + 1)
          => \E q \in Queries :
               /\ \E r \in requests' \ requests : r.rid = nextMid /\ r.payload.query = q
               /\ LET before == SessionOf(chat, lastCall'.sid).messages
                      after == SessionOf(chat', lastCall'.sid).messages
                  IN /\ Len(after) = Len(before) + 1
                     /\ SubSeq(after, 1, Len(before)) = before
                     /\ after[Len(after)].id = nextMid
                     /\ after[Len(after)].role = "user"
                     /\ after[Len(after)].content = q
       /\ (lastCall'.op = "networkSuccess" /\ ~lastCall'.flag /\ nextMid' = nextMid + 1)
          => \E r \in requests \ requests' :
               LET before == SessionOf(chat, r.sessionId).messages
                   after == SessionOf(chat', r.sessionId).messages
               IN /\ Len(after) = Len(before) + 1
                  /\ SubSeq(after, 1, Len(before)) = before
                  /\ \E k \in 1..Len(before) :
                       /\ before[k].id = r.rid
                       /\ before[k].role = "user"
                       /\ before[k].content = r.payload.query
                  /\ after[Len(after)].id = nextMid
                  /\ after[Len(after)].role = "model"
                  /\ after[Len(after)].content \in {<<"h", "i">>, <<>>}
                  /\ after[Len(after)].images = <<>>
                  /\ ~after[Len(after)].typed]_vars
  /\ \A id \in MessageIds :
       RevealingText(id) ~>
         \/ Shown(id) = <<>>
         \/ Shown(id)[1].typed /\ ~chat.sessions[ActiveIdx(chat)].loading

\* the reply "hi" to "hello" was revealed and settled by its own bubble, and the
\* session is not loading
C6_Witness ==
  \E id \in DOMAIN typing :
    LET msgs == ActiveMessages(chat)
        k == FindIdx(msgs, id, 1)
    IN /\ k > 1
       /\ msgs[k].role = "model"
       /\ msgs[k].content = <<"h", "i">>
       /\ msgs[k].typed
       /\ msgs[k - 1].role = "user"
       /\ msgs[k - 1].content = <<"h", "e", "l", "l", "o">>
       /\ typing[id].dispatchedMark
       /\ ~chat.sessions[ActiveIdx(chat)].loading

\* the bubble of id has run its tick loop and its settle timer to the end
Revealed(id) ==
  /\ Shown(id) # <<>>
  /\ typing[id].isTypingComplete
  /\ ~typing[id].raf
  /\ typing[id].typedText = Shown(id)[1].content
  /\ typing[id].dispatchedMark
  /\ Shown(id)[1].typed
  /\ settleCalls[id] = 1

\* C7 as stated: once the bubble of a model message without images has run to
\* the end, the cursor equals the length of the content, the visible text is
\* the content and markMessageTyped was dispatched exactly once.
C7_CursorAtEnd ==
  \A id \in DOMAIN typing :
    (typing[id].dispatchedMark /\ Len(Shown(id)[1].images) = 0)
    => (Revealed(id) /\ typing[id].charIndex = Len(Shown(id)[1].content))

\* C7: for a model message without images, not settled, of any length N, whose
\* bubble stays mounted, the tick loop ends and the settle timer runs; from then
\* on the visible text is the content, markMessageTyped was dispatched exactly
\* once and the cursor is N, or 0 or 1 when N = 0.
C7_RevealCompletes ==
  /\ [](\A id \in DOMAIN typing :
          (typing[id].dispatchedMark /\ Len(Shown(id)[1].images) = 0)
          => /\ Revealed(id)
             /\ typing[id].charIndex >= Len(Shown(id)[1].content)
             /\ typing[id].charIndex <= IF Len(Shown(id)[1].content) = 0 THEN 1
                                        ELSE Len(Shown(id)[1].content))
  /\ \A id \in MessageIds :
       RevealingText(id) ~> (Shown(id) = <<>> \/ Revealed(id))

\* a reply of two characters was revealed to the end by its bubble
C7_Witness ==
  \E id \in DOMAIN typing :
    /\ Revealed(id)
    /\ Len(Shown(id)[1].images) = 0
    /\ Len(Shown(id)[1].content) = 2
    /\ typing[id].charIndex = 2

\* C8: when the debounce timer fires while the enabled flag the controller holds
\* (enabledRef.current) is false, no scroll command is issued and the container
\* stays where it is, although the flag was true when the timer was set.
C8_NoScrollWhenDisabledAtFire ==
  [][(auto.timeout = <<0>> /\ auto'.last = "timer" /\ ~auto.enabledRef)
     => (auto'.commands = auto.commands /\ auto'.scrollTop = auto.scrollTop)]_vars

\* the timer has just fired with the flag false on a container that overflows
\* and is not at its bottom: nothing was scrolled
C8_Witness ==
  /\ auto.last = "timer"
  /\ ~auto.enabledRef
  /\ auto.scrollHeight > ClientHeight
  /\ auto.scrollTop # auto.scrollHeight - ClientHeight
  /\ auto.commands = 0


\* the tagged id resolves to an image of the messages that has an id
Resolvable(msgs, id) ==
  findImage(msgs, id, 1) # <<>> /\ findImage(msgs, id, 1)[1].path # ""

\* C11: every id in the related_images of the request of an accepted send
\* resolves, by the in-order scan of the session's messages at send time, to
\* an image with a non-empty id (ids that do not resolve were dropped).
C11_RequestIdsResolvable ==
  [][(/\ lastCall'.op = "sendMessage"
      /\ lastCall'.flag
      /\ nextMid' = nextMid + 1)
     => \A r \in requests' \ requests :
          \A i \in 1..Len(r.payload.related_images) :
            Resolvable(SessionOf(chat, lastCall'.sid).messages,
                       r.payload.related_images[i])]_vars


C13_PromotesFollowing ==
  [][(/\ lastCall'.op = "removeSession"
      /\ lastCall'.sid = chat.activeSessionId
      /\ HasSession(chat, lastCall'.sid))
     => LET k == FindIdx(chat.sessions, lastCall'.sid, 1) IN
        /\ k < Len(chat.sessions) => chat'.activeSessionId = chat.sessions[k + 1].id
        /\ Len(chat.sessions) = 1 => chat'.activeSessionId = Null]_vars

\* C13: removing the active session makes the first session of the remaining
\* list the active one (the session that followed the removed one only when the
\* removed one was first), and leaves no active session when the list becomes
\* empty; removing another session leaves the active session alone.
C13_PromotesFirstRemaining ==
  [][(lastCall'.op = "removeSession" /\ HasSession(chat, lastCall'.sid))
     => /\ chat'.sessions = Filter(chat.sessions, lastCall'.sid)
        /\ Len(chat'.sessions) = Len(chat.sessions) - 1
        /\ chat'.activeSessionId =
             IF lastCall'.sid # chat.activeSessionId THEN chat.activeSessionId
             ELSE IF Len(chat'.sessions) > 0 THEN chat'.sessions[1].id
             ELSE Null]_vars

\* the active session, second of three or more, was removed: the first of the
\* list is active, not the one that followed
C13_Witness ==
  /\ lastCall.op = "removeSession"
  /\ lastCall.flag
  /\ lastCall.mid = 2
  /\ Len(chat.sessions) >= 2
  /\ chat.activeSessionId = chat.sessions[1].id


\* the session sid of the store has no message mid
MessageMissing(st, sid, mid) ==
  HasSession(st, sid) /\ FindIdx(SessionOf(st, sid).messages, mid, 1) = 0

\* C14: in every reachable store state, every reducer applied with a session id
\* that is not in the list returns the state unchanged, and markMessageTyped
\* and markMessageAnimated applied with a message id that is not in the
\* targeted session return the state unchanged, loading flag included.
C14_LookupMissNoOp ==
  /\ \A sid \in SessionIds :
       ~HasSession(chat, sid) =>
         /\ switchSession(chat, sid) = chat
         /\ removeSession(chat, sid) = chat
         /\ setSessionStatus(chat, sid) = chat
         /\ clearTaggedImages(chat, sid) = chat
         /\ \A text \in StoreTexts, images \in StoreImages, typed \in BOOLEAN :
              /\ addUserMessage(chat, sid, text, images, nextMid) = chat
              /\ addModelMessage(chat, sid, text, images, typed, nextMid) = chat
         /\ \A p \in MetaPayloads :
              setSessionMeta(chat, sid, p.prev_context, p.was_context_valid_old,
                             p.is_follow_up_old, p.related_images, p.title) = chat
         /\ \A path \in StorePaths : toggleTaggedImage(chat, sid, path) = chat
         /\ \A loading \in BOOLEAN : setSessionLoading(chat, sid, loading) = chat
         /\ \A mid \in 1..MaxStoreMsgs :
              /\ markMessageTyped(chat, sid, mid) = chat
              /\ markMessageAnimated(chat, sid, mid) = chat
  /\ \A sid \in SessionIds, mid \in 1..MaxStoreMsgs :
       MessageMissing(chat, sid, mid) =>
         /\ markMessageTyped(chat, sid, mid) = chat
         /\ markMessageAnimated(chat, sid, mid) = chat


\* the session holds a model message that is not settled yet
UnsettledReply(session) ==
  \E k \in 1..Len(session.messages) :
    session.messages[k].role = "model" /\ ~session.messages[k].typed

Quiet(st, typ, id) ==
  /\ Lookup(st, id) # <<>>
  /\ Lookup(st, id)[1].role = "model"
  /\ id \in DOMAIN typ =>
       /\ Lookup(st, id)[1].typed
       /\ typ[id].typedText = Lookup(st, id)[1].content
       /\ ~typ[id].raf

C17_HistoryIsPriorMessages ==
  [][(lastCall'.op = "sendMessage" /\ lastCall'.flag) =>
       LET before == SessionOf(chat, lastCall'.sid).messages
           after == SessionOf(chat', lastCall'.sid).messages
       IN
       /\ Cardinality(requests' \ requests) = 1
       /\ \A r \in requests' \ requests :
            /\ r.sessionId = lastCall'.sid
            /\ Len(r.payload.message_history) = Len(before)
            /\ \A i \in 1..Len(before) :
                 /\ r.payload.message_history[i].role = before[i].role
                 /\ r.payload.message_history[i].content = before[i].content
            /\ Len(after) = Len(before) + 1
            /\ after[Len(after)].id = lastCall'.mid
            /\ after[Len(after)].role = "user"
            /\ after[Len(after)].content = r.payload.query
            /\ \A i \in 1..Len(before) : before[i].id # lastCall'.mid]_vars

\* a send in a session that already holds a query and its reply
C17_Witness ==
  /\ lastCall.op = "sendMessage"
  /\ lastCall.flag
  /\ \E r \in requests :
       /\ r.rid = lastCall.mid
       /\ Len(r.payload.message_history) >= 2
       /\ r.payload.message_history[1].role = "user"
       /\ r.payload.message_history[2].role = "model"


\* C18: bootstrapFirstSession applied to an empty session list yields a list
\* of exactly one fresh session, which is the active one; applied to a
\* non-empty list, in any reachable store state, it returns the state unchanged.
C18_BootstrapOnlyWhenEmpty ==
  [][lastCall'.op = "bootstrapFirstSession" =>
       IF Len(chat.sessions) = 0
       THEN /\ Len(chat'.sessions) = 1
            /\ chat'.sessions[1] = createNewSession(lastCall'.sid, "First Chat")
            /\ ~HasSession(chat, lastCall'.sid)
            /\ chat'.activeSessionId = lastCall'.sid
       ELSE chat' = chat]_vars

\* bootstrapFirstSession was applied to a list of two sessions or more, whose
\* first chat was itself created by a bootstrap after the list had been emptied
C18_Witness ==
  /\ lastCall.op = "bootstrapFirstSession"
  /\ ~lastCall.flag
  /\ Len(chat.sessions) >= 2
  /\ \E i \in 1..Len(chat.sessions) :
       chat.sessions[i].title = "First Chat" /\ chat.sessions[i].id >= 2


\* C19: addSession puts a fresh session at the front of the list and makes it
\* the active one; the session has new = true, no messages and no tagged
\* images; the sessions that were in the list follow it, each unchanged and in
\* the order they had.
C19_AddSessionAtFront ==
  [][lastCall'.op = "addSession" =>
       /\ Len(chat'.sessions) = Len(chat.sessions) + 1
       /\ chat'.sessions[1].id = lastCall'.sid
       /\ ~HasSession(chat, lastCall'.sid)
       /\ chat'.activeSessionId = lastCall'.sid
       /\ chat'.sessions[1].new
       /\ chat'.sessions[1].messages = <<>>
       /\ chat'.sessions[1].related_images = <<>>
       /\ \A i \in 1..Len(chat.sessions) : chat'.sessions[i + 1] = chat.sessions[i]]_vars

\* a session was added in front of two sessions, one of them holding a message
C19_Witness ==
  /\ lastCall.op = "addSession"
  /\ Len(chat.sessions) >= 3
  /\ chat.sessions[1].id = lastCall.sid
  /\ \E i \in 2..Len(chat.sessions) : Len(chat.sessions[i].messages) > 0
  /\ \E i \in 2..Len(chat.sessions) : ~chat.sessions[i].new


\* C20: the controller never has more than one timer pending; a scroll command
\* is issued only by a timer that fires when the debounce delay has passed
\* since the last notification taken while enabled, and it leaves no timer
\* pending, so the notifications of a burst get one scroll command at most.
C20_OneTimerOneScroll ==
  [][/\ Len(auto'.timeout) <= 1
     /\ auto'.commands > auto.commands =>
          /\ auto'.last = "timer"
          /\ auto'.commands = auto.commands + 1
          /\ auto.sinceNotify >= delay
          /\ auto'.timeout = <<>>]_vars

\* a timer has fired and scrolled after two earlier timers of the same burst
\* had been cleared by the notifications that followed them
C20_Witness ==
  /\ auto.last = "timer"
  /\ auto.resets = 2
  /\ auto.commands = 1
  /\ auto.timeout = <<>>


\* the message id is in the store, written by the model and carries images
CarriesImages(st, id) ==
  /\ Lookup(st, id) # <<>>
  /\ Lookup(st, id)[1].role = "model"
  /\ Len(Lookup(st, id)[1].images) # 0

\* C21: the settle timer of a model message that carries images never
\* dispatches markMessageTyped; the bubble of such a message dispatches it only
\* from the completion of the image grid's animation, at which time the cursor
\* is at the end of the content, typing is complete and showImages is set.
C21_ImagesDeferSettlement ==
  [][\A id \in MessageIds :
       CarriesImages(chat, id) =>
         /\ (lastCall'.op \in {"settleTimer", "staleSettleTimer"} /\ lastCall'.mid = id)
              => (~lastCall'.flag /\ settleCalls'[id] = settleCalls[id]
                  /\ Lookup(chat', id) = Lookup(chat, id))
         /\ (settleCalls'[id] > settleCalls[id] /\ chat'.activeSessionId = chat.activeSessionId
             /\ lastCall'.op # "reload")
              => /\ lastCall'.op = "imageAnimationComplete"
                 /\ lastCall'.mid = id
                 /\ id \in DOMAIN typing
                 /\ typing[id].charIndex >= Len(Lookup(chat, id)[1].content)
                 /\ typing[id].isTypingComplete
                 /\ typing[id].showImages
                 /\ ~typing[id].raf]_vars

\* the image grid of a reply with images has finished its animation and the
\* bubble has settled the message, once
C21_Witness ==
  /\ lastCall.op = "imageAnimationComplete"
  /\ lastCall.flag
  /\ CarriesImages(chat, lastCall.mid)
  /\ Lookup(chat, lastCall.mid)[1].typed
  /\ settleCalls[lastCall.mid] = 1


\* the bubble of id has been mounted by this step
Mounted(id) ==
  /\ id \in DOMAIN typing'
  /\ \/ id \notin DOMAIN typing
     \/ chat'.activeSessionId # chat.activeSessionId
     \/ lastCall'.op = "reload"

\* C22: a bubble that has just been mounted has a reveal running exactly when
\* its message is written by the model and not typed, and it then starts from
\* the empty text; the bubble of a user message or of a typed model message
\* always shows the whole content with no frame pending; and a bubble
\* dispatches markMessageTyped only for a model message that is not typed.
C22_RevealIffUntypedModel ==
  [][/\ \A id \in MessageIds :
          Mounted(id) =>
            LET m == MessageById(ActiveMessages(chat'), id) IN
            /\ typing'[id].raf <=> (m.role = "model" /\ ~m.typed)
            /\ typing'[id].raf => (typing'[id].typedText = <<>> /\ typing'[id].charIndex = 0)
     /\ \A id \in DOMAIN typing' :
          LET m == MessageById(ActiveMessages(chat'), id) IN
          (m.role = "user" \/ m.typed)
            => (typing'[id].typedText = m.content /\ ~typing'[id].raf)
     /\ (lastCall'.op \in {"settleTimer", "imageAnimationComplete"} /\ lastCall'.flag)
          => /\ Lookup(chat, lastCall'.mid) # <<>>
             /\ Lookup(chat, lastCall'.mid)[1].role = "model"
             /\ ~Lookup(chat, lastCall'.mid)[1].typed]_vars

\* a session was switched to: the bubbles of its query and of its settled
\* reply are mounted with their whole content and nothing to run
C22_Witness ==
  /\ lastCall.op = "switchSession"
  /\ \E id \in DOMAIN typing :
       /\ MessageById(ActiveMessages(chat), id).role = "model"
       /\ MessageById(ActiveMessages(chat), id).typed
       /\ Len(MessageById(ActiveMessages(chat), id).content) > 0
       /\ typing[id].typedText = MessageById(ActiveMessages(chat), id).content
       /\ typing[id].charIndex = 0
       /\ ~typing[id].raf
  /\ \E id \in DOMAIN typing :
       /\ MessageById(ActiveMessages(chat), id).role = "user"
       /\ typing[id].typedText = MessageById(ActiveMessages(chat), id).content


\* C23: while the reveal of a message runs in its bubble, the cursor moves only
\* in step(), by one character and exactly when the time since the last advance
\* has reached the delay of the character before the cursor; the text shown is
\* the first characters of the content up to the cursor; and the stored content
\* of a message never changes.
C23_CursorStepsByOne ==
  [][/\ \A id \in DOMAIN typing :
          (typing[id].raf /\ id \in DOMAIN typing'
           /\ chat'.activeSessionId = chat.activeSessionId) =>
            LET m == MessageById(ActiveMessages(chat), id)
                ticked == lastCall'.op = "tick" /\ lastCall'.mid = id
            IN
            /\ ~ticked => typing'[id].charIndex = typing[id].charIndex
            /\ ticked =>
                 /\ typing'[id].charIndex =
                      IF 8 * (typing[id].elapsed + lastCall'.dt)
                           >= dynamicDelay8(charAt(m.content, typing[id].charIndex),
                                            lastCall'.j)
                      THEN typing[id].charIndex + 1
                      ELSE typing[id].charIndex
                 /\ typing'[id].typedText =
                      SubSeq(m.content, 1, Min(typing'[id].charIndex, Len(m.content)))
     /\ \A id \in DOMAIN typing' :
          typing'[id].raf =>
            typing'[id].typedText =
              SubSeq(MessageById(ActiveMessages(chat'), id).content, 1, typing'[id].charIndex)
     /\ \A id \in MessageIds :
          (Lookup(chat, id) # <<>> /\ Lookup(chat', id) # <<>>)
            => Lookup(chat', id)[1].content = Lookup(chat, id)[1].content]_vars

\* a frame has come too early to advance the cursor, which stands after the
\* first of two characters
C23_Witness ==
  /\ lastCall.op = "tick"
  /\ ~lastCall.flag
  /\ typing[lastCall.mid].raf
  /\ typing[lastCall.mid].charIndex = 1
  /\ Len(typing[lastCall.mid].typedText) = 1
  /\ Len(MessageById(ActiveMessages(chat), lastCall.mid).content) = 2


\* C24: when the ChatWindow renders its bubbles again because isAtBottom or
\* the tagged images changed, every bubble keeps its cursor, its text, its
\* pending frame and its flags, and no settle timer is added or lost; and the
\* render that follows a step of the frame loop keeps the cursor the step has
\* advanced: the reveal of a message whose id, content and typed flag are as
\* before is not started again.
C24_RerenderKeepsReveal ==
  [][/\ (lastCall'.op = "tick" /\ lastCall'.flag) =>
          /\ typing'[lastCall'.mid].charIndex = typing[lastCall'.mid].charIndex + 1
          /\ Len(typing'[lastCall'.mid].typedText) >= Len(typing[lastCall'.mid].typedText)
     /\ lastCall'.op \in {"handleScroll", "toggleImage"} =>
       /\ DOMAIN typing' = DOMAIN typing
       /\ \A id \in DOMAIN typing :
            /\ typing'[id].charIndex = typing[id].charIndex
            /\ typing'[id].typedText = typing[id].typedText
            /\ typing'[id].raf = typing[id].raf
            /\ typing'[id].elapsed = typing[id].elapsed
            /\ typing'[id].isTypingComplete = typing[id].isTypingComplete
            /\ typing'[id].showImages = typing[id].showImages
            /\ typing'[id].dispatchedMark = typing[id].dispatchedMark
       /\ timers' = timers
       /\ settleCalls' = settleCalls]_vars

\* isAtBottom has changed while a reply was revealed half: the cursor stands
\* after the first of two characters and the next frame is still pending
C24_Witness ==
  /\ lastCall.op = "handleScroll"
  /\ auto.last = "flagChangedInReveal"
  /\ \E id \in DOMAIN typing :
       /\ typing[id].raf
       /\ typing[id].charIndex = 1
       /\ Len(typing[id].typedText) = 1

\* C25: when the settle timer of a mounted bubble settles a message without
\* images, scrollIntoView is called on the container exactly when isAtBottom
\* is true as the timer fires: then an overflowing container is scrolled to
\* its bottom by one command, and when isAtBottom is false nothing is scrolled.
C25_ScrollIffAtBottomAtFire ==
  [][(lastCall'.op = "settleTimer" /\ lastCall'.flag) =>
       IF auto.isAtBottom /\ auto.scrollHeight > ClientHeight
       THEN /\ auto'.commands = auto.commands + 1
            /\ auto'.scrollTop = auto.scrollHeight - ClientHeight
       ELSE auto' = auto]_vars

\* the user left the bottom while the reply was revealed; the timer has settled
\* the message and nothing was scrolled
C25_Witness ==
  /\ lastCall.op = "settleTimer"
  /\ lastCall.flag
  /\ auto.last = "flagChangedInReveal"
  /\ ~auto.isAtBottom
  /\ auto.commands = 0
  /\ auto.scrollTop # auto.scrollHeight - ClientHeight


\* the session ids of the frames pending, in a row
RECURSIVE PendingIds(_)
PendingIds(frames) ==
  IF frames = <<>> THEN {} ELSE Head(frames) \cup PendingIds(Tail(frames))

Core(m) == [id |-> m.id, role |-> m.role, content |-> m.content, images |-> m.images]

\* every session of st that is still in st2 has in st2 the messages it has in
\* st, in the same places, flags left out, followed by extra more
KeepsMessages(st, st2, sid, extra) ==
  \A id \in SessionIds :
    (HasSession(st, id) /\ HasSession(st2, id)) =>
      LET a == SessionOf(st, id).messages
          b == SessionOf(st2, id).messages
      IN /\ Len(b) = Len(a) + (IF id = sid THEN extra ELSE 0)
         /\ \A i \in 1..Len(a) : Core(b[i]) = Core(a[i])

\* C27: applied to any reachable store state, every reducer leaves the
\* messages of every remaining session in their places with their ids, roles,
\* contents and images; addUserMessage and addModelMessage put exactly one
\* message, the one given, behind those of the session named; every other
\* reducer adds none.
C27_MessagesAppendOnly ==
  /\ KeepsMessages(chat, bootstrapFirstSession(chat, nextSid), Null, 0)
  /\ KeepsMessages(chat, addSession(chat, nextSid, "New Chat"), Null, 0)
  /\ \A sid \in SessionIds :
       /\ KeepsMessages(chat, switchSession(chat, sid), Null, 0)
       /\ KeepsMessages(chat, removeSession(chat, sid), Null, 0)
       /\ KeepsMessages(chat, setSessionStatus(chat, sid), Null, 0)
       /\ KeepsMessages(chat, clearTaggedImages(chat, sid), Null, 0)
       /\ \A b \in BOOLEAN : KeepsMessages(chat, setSessionLoading(chat, sid, b), Null, 0)
       /\ \A path \in StorePaths : KeepsMessages(chat, toggleTaggedImage(chat, sid, path), Null, 0)
       /\ \A p \in MetaPayloads :
            KeepsMessages(chat, setSessionMeta(chat, sid, p.prev_context,
                                               p.was_context_valid_old, p.is_follow_up_old,
                                               p.related_images, p.title), Null, 0)
       /\ \A mid \in 1..MaxStoreMsgs :
            /\ KeepsMessages(chat, markMessageTyped(chat, sid, mid), Null, 0)
            /\ KeepsMessages(chat, markMessageAnimated(chat, sid, mid), Null, 0)
       /\ \A text \in StoreTexts, images \in StoreImages :
            /\ KeepsMessages(chat, addUserMessage(chat, sid, text, images, nextMid), sid, 1)
            /\ HasSession(chat, sid) =>
                 LET b == SessionOf(addUserMessage(chat, sid, text, images, nextMid), sid).messages
                 IN Core(b[Len(b)]) = [id |-> nextMid, role |-> "user",
                                       content |-> text, images |-> images]
            /\ \A typed \in BOOLEAN :
                 /\ KeepsMessages(chat, addModelMessage(chat, sid, text, images, typed, nextMid),
                                  sid, 1)
                 /\ HasSession(chat, sid) =>
                      LET b == SessionOf(addModelMessage(chat, sid, text, images, typed,
                                                         nextMid), sid).messages
                      IN Core(b[Len(b)]) = [id |-> nextMid, role |-> "model",
                                            content |-> text, images |-> images]

\* a session holds a user message, whose animated flag has been set since it
\* was added, and behind it a typed model message
C27_Witness ==
  /\ nextMid <= MaxStoreMsgs + 1
  /\ \E i \in 1..Len(chat.sessions) :
       /\ Len(chat.sessions[i].messages) = 2
       /\ chat.sessions[i].messages[1].role = "user"
       /\ chat.sessions[i].messages[1].animated
       /\ chat.sessions[i].messages[2].role = "model"
       /\ chat.sessions[i].messages[2].typed
       /\ chat.sessions[i].messages[1].id < chat.sessions[i].messages[2].id


\* C28: in every reachable store state, values of related_images written by
\* setSessionMeta included, toggleTaggedImage(s, x) makes x a tagged image
\* exactly when it was not one before and leaves every other image tagged or
\* not as it was.
C28_ToggleSetSemantics ==
  \A sid \in SessionIds, x \in TagPaths :
    HasSession(chat, sid) =>
      LET before == Range(TagsOf(chat, sid))
          after == Range(TagsOf(toggleTaggedImage(chat, sid, x), sid))
      IN /\ x \in after <=> x \notin before
         /\ \A y \in TagPaths \ {x} : y \in after <=> y \in before


\* C29: in every store state reached by bootstrap, add, switch and remove
\* operations (and writes to the sessions), activeSessionId is null exactly
\* when the session list is empty, and otherwise is the id of a session of
\* the list.
C29_ActiveInList ==
  /\ chat.activeSessionId = Null <=> Len(chat.sessions) = 0
  /\ chat.activeSessionId # Null => HasSession(chat, chat.activeSessionId)

\* the last of several sessions created has been removed: the list is empty
\* and no session is active
C29_Witness ==
  /\ lastCall.op = "removeSession"
  /\ lastCall.flag
  /\ nextSid >= 3
  /\ Len(chat.sessions) = 0
  /\ chat.activeSessionId = Null


\* C30: in every session the messages alternate between the two roles,
\* beginning with a user message: the odd places hold user messages and the
\* even places model messages.
C30_RolesAlternate ==
  \A i \in 1..Len(chat.sessions) :
    \A k \in 1..Len(chat.sessions[i].messages) :
      chat.sessions[i].messages[k].role = IF k % 2 = 1 THEN "user" ELSE "model"

\* C31: a network completion (success or failure) appends its model message to
\* the session the query was sent from and, on success, installs the reply's
\* meta there, whichever session is active at that moment; every other session
\* and activeSessionId stay as they were.  If that session was removed in the
\* meantime the completion leaves the store unchanged.
C31_CompletionTargetsOrigin ==
  [][(requests' # requests /\ requests' \subseteq requests)
     => LET r == CHOOSE q \in requests \ requests' : TRUE
            i == FindIdx(chat.sessions, r.sessionId, 1)
        IN
        IF i = 0 THEN chat' = chat
        ELSE LET before == chat.sessions[i]
                 after == chat'.sessions[i]
                 last == after.messages[Len(after.messages)]
             IN
             /\ chat'.activeSessionId = chat.activeSessionId
             /\ Len(chat'.sessions) = Len(chat.sessions)
             /\ \A k \in 1..Len(chat.sessions) :
                  k # i => chat'.sessions[k] = chat.sessions[k]
             /\ after.id = r.sessionId
             /\ Len(after.messages) = Len(before.messages) + 1
             /\ SubSeq(after.messages, 1, Len(before.messages)) = before.messages
             /\ last.role = "model"
             /\ last.id = nextMid
             /\ after.related_images = before.related_images
             /\ after.title = before.title
             /\ after.loading = before.loading
             /\ \/ /\ lastCall'.op = "networkFailure"
                   /\ last.content = APOLOGY
                   /\ after.prev_context = before.prev_context
                   /\ after.was_context_valid_old = before.was_context_valid_old
                   /\ after.is_follow_up_old = before.is_follow_up_old
                \/ /\ lastCall'.op = "networkSuccess"
                   /\ \E data \in Responses :
                        /\ last.content = Nullish(data.answer, <<>>)
                        /\ last.images = normalizeImages(data.images)
                        /\ after.prev_context = Nullish(data.context, "")
                        /\ after.was_context_valid_old = Boolean(data.was_context_valid)
                        /\ after.is_follow_up_old = Boolean(data.is_follow_up)]_vars

\* a reply has just arrived in a session that is in the list but not active
C31_Witness ==
  /\ lastCall.op = "networkSuccess"
  /\ lastCall.mid # 0
  /\ lastCall.sid # chat.activeSessionId
  /\ HasSession(chat, lastCall.sid)
  /\ LET session == SessionOf(chat, lastCall.sid) IN
     /\ session.messages[Len(session.messages)].id = lastCall.mid
     /\ session.messages[Len(session.messages)].role = "model"
     /\ session.prev_context = "ctx"

\* the sessions other than sid, the order of the list and the active id are
\* the same in st2 as in st
OthersKept(st, st2, sid) ==
  /\ st2.activeSessionId = st.activeSessionId
  /\ Len(st2.sessions) = Len(st.sessions)
  /\ \A k \in 1..Len(st.sessions) :
       /\ st2.sessions[k].id = st.sessions[k].id
       /\ st.sessions[k].id # sid => st2.sessions[k] = st.sessions[k]

\* C32: a store operation addressed to one session (append of a user or model
\* message, meta update, tag toggle, tag clear, setLoading, settle,
\* markEntryAnimated, acknowledge) leaves every other session, the order of the
\* session list and activeSessionId unchanged, in every reachable store state
\* and for every argument.
C32_OtherSessionsUntouched ==
  \A sid \in SessionIds :
    /\ \A text \in StoreTexts, images \in StoreImages :
         /\ OthersKept(chat, addUserMessage(chat, sid, text, images, nextMid), sid)
         /\ \A typed \in BOOLEAN :
              OthersKept(chat, addModelMessage(chat, sid, text, images, typed, nextMid), sid)
    /\ \A p \in MetaPayloads :
         OthersKept(chat, setSessionMeta(chat, sid, p.prev_context, p.was_context_valid_old,
                                         p.is_follow_up_old, p.related_images, p.title), sid)
    /\ \A path \in StorePaths : OthersKept(chat, toggleTaggedImage(chat, sid, path), sid)
    /\ OthersKept(chat, clearTaggedImages(chat, sid), sid)
    /\ \A loading \in BOOLEAN : OthersKept(chat, setSessionLoading(chat, sid, loading), sid)
    /\ \A mid \in 1..MaxStoreMsgs :
         /\ OthersKept(chat, markMessageTyped(chat, sid, mid), sid)
         /\ OthersKept(chat, markMessageAnimated(chat, sid, mid), sid)
    /\ OthersKept(chat, setSessionStatus(chat, sid), sid)

\* two sessions that both carry tags, a message and a raised loading flag; each
\* of the operations on the second one changes the store
C32_Witness ==
  /\ Len(chat.sessions) = 2
  /\ \A k \in 1..2 :
       /\ chat.sessions[k].related_images # <<>>
       /\ chat.sessions[k].messages # <<>>
       /\ chat.sessions[k].loading
       /\ chat.sessions[k].new
  /\ LET sid == chat.sessions[2].id IN
     /\ clearTaggedImages(chat, sid) # chat
     /\ setSessionLoading(chat, sid, FALSE) # chat
     /\ setSessionStatus(chat, sid) # chat
     /\ markMessageTyped(chat, sid, chat.sessions[2].messages[1].id) # chat

\* the session with id sid has become the mounted (active) one by this step
BecomesMounted(sid) ==
  /\ chat'.activeSessionId = sid
  /\ chat.activeSessionId # sid
  /\ HasSession(chat', sid)

\* the session holds a model message that is not settled and whose bubble has
\* set no settle timer and received no settle: its reveal has never ended
UnshownReply(session) ==
  \E k \in 1..Len(session.messages) :
    /\ session.messages[k].role = "model"
    /\ ~session.messages[k].typed
    /\ settleCalls[session.messages[k].id] = 0
    /\ \A t \in timers : t.messageId # session.messages[k].id

\* C33: when a session becomes the mounted (active) session, every model
\* message of it that was not settled is settled in the same step and its
\* bubble shows the whole content with no reveal running, and the loading flag
\* of the session is then false; and a reply that arrives while another
\* session is active finds and leaves loading=true, which stays true as long
\* as its session has not become the active one.
C33_MountSettlesUnrevealed ==
  [][\A sid \in SessionIds :
       /\ (BecomesMounted(sid) /\ HasSession(chat, sid)) =>
            LET before == SessionOf(chat, sid)
                after == SessionOf(chat', sid)
            IN
            /\ \A k \in 1..Len(after.messages) :
                 after.messages[k].role = "model" =>
                   /\ after.messages[k].typed
                   /\ typing'[after.messages[k].id].typedText = after.messages[k].content
                   /\ typing'[after.messages[k].id].charIndex = 0
                   /\ ~typing'[after.messages[k].id].raf
            /\ UnsettledReply(before) => ~after.loading
       /\ (/\ lastCall'.op \in {"networkSuccess", "networkFailure"}
           /\ lastCall'.sid = sid
           /\ lastCall'.mid = nextMid
           /\ nextMid' = nextMid + 1
           /\ chat.activeSessionId # sid)
            => /\ SessionOf(chat, sid).loading
               /\ SessionOf(chat', sid).loading
       /\ (/\ HasSession(chat, sid)
           /\ HasSession(chat', sid)
           /\ chat.activeSessionId # sid
           /\ chat'.activeSessionId # sid
           /\ UnshownReply(SessionOf(chat, sid))
           /\ SessionOf(chat, sid).loading)
            => /\ SessionOf(chat', sid).loading
               /\ UnshownReply(SessionOf(chat', sid))]_vars

\* C34: the teardown of an Auto-Follow Controller (its observed element is
\* unmounted) leaves no debounce timer pending and issues no scroll command,
\* and as long as the controller is torn down no scroll command is issued and
\* the container stays where it is, whichever timer was pending at teardown.
C34_TeardownCancelsTimer ==
  [][/\ (auto.mounted /\ ~auto'.mounted)
          => /\ auto'.timeout = <<>>
             /\ auto'.commands = auto.commands
             /\ auto'.scrollTop = auto.scrollTop
     /\ ~auto.mounted
          => /\ auto'.commands = auto.commands
             /\ auto'.scrollTop = auto.scrollTop
             /\ ~auto'.mounted => auto'.timeout = <<>>]_vars

\* the controller was torn down while its timer was pending with the flag
\* enabled, on a container that overflows and is not at its bottom: the timer
\* would have scrolled
C34_Witness ==
  /\ auto.last = "teardown"
  /\ lastCall.op = "teardown"
  /\ lastCall.mid = 1
  /\ lastCall.flag
  /\ ~auto.mounted
  /\ auto.timeout = <<>>
  /\ auto.scrollHeight > ClientHeight
  /\ auto.scrollTop # auto.scrollHeight - ClientHeight
  /\ auto.commands = 0

=============================================================================
